---------------------------- MODULE Spec2Model ----------------------------
(***************************************************************************)
(* Model of the beatmap editor core: TimelineViewport (zoom / scroll /     *)
(* duration state with publish-subscribe), and the BeatmapEditor           *)
(* interaction handlers (note placement and deletion).                     *)
(*                                                                         *)
(* JavaScript numbers are modelled as exact rationals <<n, d>> in lowest   *)
(* terms with d > 0, extended with the IEEE special values                 *)
(* <<1, 0>> = +Infinity, <<-1, 0>> = -Infinity and <<0, 0>> = NaN, so that *)
(* division by a zero pixelsPerMs behaves as it does in the program.       *)
(* Rounding error of binary floating point is not modelled.                *)
(***************************************************************************)
EXTENDS Integers, Sequences, FiniteSets, TLC

----------------------------------------------------------------------------
(* JavaScript number semantics                                             *)

RECURSIVE GCD(_, _)
GCD(a, b) == IF b = 0 THEN a ELSE GCD(b, a % b)

IAbs(n) == IF n < 0 THEN -n ELSE n

Sgn(n) == IF n < 0 THEN -1 ELSE IF n > 0 THEN 1 ELSE 0

Norm(n, d) ==
  IF d = 0 THEN <<Sgn(n), 0>>
  ELSE LET g == GCD(IAbs(n), IAbs(d))
           s == IF d < 0 THEN -1 ELSE 1
       IN  <<(s * n) \div g, (s * d) \div g>>

R(n, d) == Norm(n, d)
N(n) == <<n, 1>>
Zero == <<0, 1>>
NaN == <<0, 0>>
PosInf == <<1, 0>>
NegInf == <<-1, 0>>

IsNaN(a) == a = NaN
IsInf(a) == a[2] = 0 /\ a[1] # 0
isFinite(a) == a[2] # 0

Neg(a) == <<-a[1], a[2]>>

\* (the operands of an arithmetic operator are bound once, as values)
Add(a, b) ==
  CHOOSE r \in
    {IF IsNaN(x) \/ IsNaN(y) THEN NaN
     ELSE IF IsInf(x) /\ IsInf(y) THEN (IF x = y THEN x ELSE NaN)
     ELSE IF IsInf(x) THEN x
     ELSE IF IsInf(y) THEN y
     ELSE Norm(x[1] * y[2] + y[1] * x[2], x[2] * y[2])
       : x \in {a}, y \in {b}} : TRUE

Sub(a, b) == Add(a, Neg(b))

Mul(a, b) ==
  CHOOSE r \in
    {IF IsNaN(x) \/ IsNaN(y) THEN NaN
     ELSE Norm(x[1] * y[1], x[2] * y[2]) : x \in {a}, y \in {b}} : TRUE

Recip(a) == Norm(a[2], a[1])

Div(a, b) == Mul(a, Recip(b))

\* a < b as JavaScript evaluates it: false whenever an operand is NaN
Lt(a, b) ==
  \E x \in {a}, y \in {b} :
    /\ ~IsNaN(x)
    /\ ~IsNaN(y)
    /\ IF IsInf(x) /\ IsInf(y) THEN x[1] < y[1]
       ELSE x[1] * y[2] < y[1] * x[2]

Gt(a, b) == Lt(b, a)

\* a === b on numbers: NaN is not equal to itself
StrictEq(a, b) == ~IsNaN(a) /\ ~IsNaN(b) /\ a = b

Le(a, b) == Lt(a, b) \/ StrictEq(a, b)
Ge(a, b) == Le(b, a)

MathMax(a, b) ==
  CHOOSE r \in
    {IF IsNaN(x) \/ IsNaN(y) THEN NaN ELSE IF Lt(x, y) THEN y ELSE x
       : x \in {a}, y \in {b}} : TRUE

MathMin(a, b) ==
  CHOOSE r \in
    {IF IsNaN(x) \/ IsNaN(y) THEN NaN ELSE IF Lt(y, x) THEN y ELSE x
       : x \in {a}, y \in {b}} : TRUE

MathAbs(a) == <<IAbs(a[1]), a[2]>>

MathFloor(a) ==
  CHOOSE r \in {IF isFinite(x) THEN N(x[1] \div x[2]) ELSE x : x \in {a}} :
    TRUE

\* Math.round rounds half-way cases towards +Infinity
MathRound(a) ==
  CHOOSE r \in {IF isFinite(x) THEN MathFloor(Add(x, R(1, 2))) ELSE x
                  : x \in {a}} : TRUE

----------------------------------------------------------------------------
(* TimelineViewport                                                        *)

VARIABLES
  state,       \* TimelineViewport.state
  listeners,   \* TimelineViewport.listeners (a Set of callback functions)
  handles,     \* unsubscribe closures returned by subscribe so far
  revoked,     \* ids of the handles that have been called
  delivered,   \* per callback: snapshots received during the last call
  notified,    \* number of notify() runs during the last call
  lastCall,    \* the last public call and its argument
  notes,             \* BeatmapEditor prop notes (owned by the parent)
  selectedNoteType,  \* useState selectedNoteType
  isPlacingHold,     \* useState isPlacingHold
  holdStartTime,     \* useState holdStartTime
  holdStartLane,     \* useState holdStartLane
  bpm,               \* prop bpm
  snapEnabled,       \* prop snapEnabled
  snapDivision,      \* prop snapDivision
  emitted,           \* collections passed to onNotesChange by the last event
  lastEvent,         \* the last click or button press and its coordinates
  cursor,            \* cursorXRef / cursorYRef: <<x, y>>, or <<>> for null
  ghostNote,         \* ghost note of the last frame: <<note>>, or <<>> for null
  renderer,          \* TimelineRenderer fields: needsStaticRedraw,
                     \* cachedWidth, cachedHeight, config
  staticSurface,     \* what the static canvas shows: <<pass>>, or <<>> if blank
  dynamicSurface,    \* the shapes the dynamic canvas shows
  lastPass,          \* the last completed static pass: <<pass>>, or <<>>
  drawn,             \* drawing operations of the last renderer call
  containerWidth,    \* scrollContainerRef.current.offsetWidth
  waveform,          \* Waveform canvas: <<paint>> of its last paint, or <<>>
  currentTime,       \* prop currentTime / currentTimeInternalRef (seconds)
  mounted,           \* the editor is mounted
  pending,           \* handles of the frame callbacks the browser holds
  animationFrameRef, \* animationFrameRef.current (0 before the first frame)
  dynamicCalls,      \* renderDynamic calls of the last run of animate()
  elementNotes,      \* <<_notes>> of the BeatmapEditorElement hosting the
                     \* editor; <<>> when the parent is the example app
  canvases,          \* backing store (width, height) and scale transform
                     \* of the renderer's static and dynamic canvases
  devicePixelRatio   \* window.devicePixelRatio

vpVars == <<state, listeners, handles, revoked, delivered, notified, lastCall>>

edVars == <<notes, selectedNoteType, isPlacingHold, holdStartTime,
            holdStartLane, bpm, snapEnabled, snapDivision, emitted, lastEvent>>

frVars == <<cursor, ghostNote>>

\* the state outside the viewport, the editor and its renderer
exVars == <<elementNotes, canvases, devicePixelRatio>>

rnVars == <<renderer, staticSurface, dynamicSurface, lastPass, drawn,
            containerWidth, waveform, exVars>>

lpVars == <<currentTime, mounted, pending, animationFrameRef, dynamicCalls>>

vars == <<state, listeners, handles, revoked, delivered, notified, lastCall,
          notes, selectedNoteType, isPlacingHold, holdStartTime,
          holdStartLane, bpm, snapEnabled, snapDivision, emitted, lastEvent,
          cursor, ghostNote, renderer, staticSurface, dynamicSurface,
          lastPass, drawn, containerWidth, waveform, currentTime, mounted,
          pending, animationFrameRef, dynamicCalls, exVars>>

\* Subscriber callbacks that client code may register
Callbacks == {"f", "g"}

\* Most subscribe calls in one behaviour
MaxSubscribes == 2

\* Arguments the callers pass, chosen to cover: below / inside / above the
\* zoom range and the NaN that parseInt gives the web component for a
\* malformed zoom attribute, zero and positive widths and durations, scroll
\* requests below, inside and beyond the valid range
ZoomInputs == {R(1, 2), N(1), N(5), N(25), NaN}
WidthInputs == {N(0), N(100)}
DurationInputs == {N(0), N(1000), N(2000)}
StartInputs == {N(-100), N(250), N(3000)}
ScrollLeftInputs == {N(50), N(4000)}
AutoScrollTimes == {N(400), N(1800)}
MarginRatios == {R(3, 10)}

\* private updatePixelsPerMs(), as a function of the state record
updatePixelsPerMs(s) ==
  IF StrictEq(s.durationMs, Zero)
  THEN [s EXCEPT !.pixelsPerMs = Zero]
  ELSE [s EXCEPT !.pixelsPerMs =
          Div(Mul(s.viewportWidthPx, s.zoom), s.durationMs)]

\* constructor(durationMs, viewportWidthPx)
constructor(durationMs, viewportWidthPx) ==
  updatePixelsPerMs([zoom |-> N(1), pixelsPerMs |-> Zero,
                     viewportStartMs |-> Zero,
                     viewportWidthPx |-> viewportWidthPx,
                     durationMs |-> durationMs])

\* getState(): a copy of the state
getState(s) == s

\* private notify(): every listener in the Set is called once with getState()
notify(s) ==
  /\ delivered' = [c \in Callbacks |->
                     IF c \in listeners THEN <<getState(s)>> ELSE <<>>]
  /\ notified' = 1

\* a call that returns before notify()
noNotify ==
  /\ delivered' = [c \in Callbacks |-> <<>>]
  /\ notified' = 0

subscribe(listener) ==
  /\ Cardinality(handles) < MaxSubscribes
  /\ listeners' = listeners \cup {listener}
  /\ handles' = handles \cup {[id |-> Cardinality(handles) + 1, cb |-> listener]}
  /\ lastCall' = [op |-> "subscribe", arg |-> Zero, m |-> Zero]
  /\ noNotify
  /\ UNCHANGED <<state, revoked>>
  /\ UNCHANGED edVars
  /\ UNCHANGED frVars
  /\ UNCHANGED rnVars
  /\ UNCHANGED lpVars

\* the closure returned by subscribe: () => this.listeners.delete(listener)
unsubscribe(h) ==
  /\ listeners' = listeners \ {h.cb}
  /\ revoked' = revoked \cup {h.id}
  /\ lastCall' = [op |-> "unsubscribe", arg |-> Zero, m |-> Zero]
  /\ noNotify
  /\ UNCHANGED <<state, handles>>
  /\ UNCHANGED edVars
  /\ UNCHANGED frVars
  /\ UNCHANGED rnVars
  /\ UNCHANGED lpVars

setZoomBody(z) ==
  LET zoom == MathMax(N(1), MathMin(N(20), z)) IN
  IF StrictEq(state.zoom, zoom)
  THEN state' = state /\ noNotify
  ELSE /\ state' = updatePixelsPerMs([state EXCEPT !.zoom = zoom])
       /\ notify(state')

\* setViewportStart clamping at 0 only
setViewportStartNoUpper(ms) ==
  LET startMs == MathMax(Zero, ms)
  IN  IF StrictEq(state.viewportStartMs, startMs)
      THEN state' = state /\ noNotify
      ELSE /\ state' = [state EXCEPT !.viewportStartMs = startMs]
           /\ notify(state')

setViewportStartBody(ms) ==
  LET maxScroll == MathMax(Zero, Sub(state.durationMs,
                             Div(state.viewportWidthPx, state.pixelsPerMs)))
      startMs == MathMax(Zero, MathMin(maxScroll, ms))
  IN  IF StrictEq(state.viewportStartMs, startMs)
      THEN state' = state /\ noNotify
      ELSE /\ state' = [state EXCEPT !.viewportStartMs = startMs]
           /\ notify(state')

setScrollLeftBody(scrollLeftPx) ==
  setViewportStartBody(Div(scrollLeftPx, state.pixelsPerMs))

\* setViewportWidth without the updatePixelsPerMs() call
setViewportWidthStale(widthPx) ==
  IF StrictEq(state.viewportWidthPx, widthPx)
  THEN state' = state /\ noNotify
  ELSE /\ state' = [state EXCEPT !.viewportWidthPx = widthPx]
       /\ notify(state')

setViewportWidthBody(widthPx) ==
  IF StrictEq(state.viewportWidthPx, widthPx)
  THEN state' = state /\ noNotify
  ELSE /\ state' = updatePixelsPerMs([state EXCEPT !.viewportWidthPx = widthPx])
       /\ notify(state')

\* setDuration resetting the scroll position on every accepted change
setDurationAlwaysReset(durationMs) ==
  IF StrictEq(state.durationMs, durationMs)
  THEN state' = state /\ noNotify
  ELSE /\ state' = [updatePixelsPerMs([state EXCEPT !.durationMs = durationMs])
                     EXCEPT !.viewportStartMs = Zero]
       /\ notify(state')

\* setDuration notifying before the scroll reset instead of after it
setDurationEarlyNotify(durationMs) ==
  IF StrictEq(state.durationMs, durationMs)
  THEN state' = state /\ noNotify
  ELSE LET s1 == updatePixelsPerMs([state EXCEPT !.durationMs = durationMs])
           s2 == IF Gt(s1.viewportStartMs, durationMs)
                 THEN [s1 EXCEPT !.viewportStartMs = Zero]
                 ELSE s1
       IN  state' = s2 /\ notify(s1)

setDurationBody(durationMs) ==
  IF StrictEq(state.durationMs, durationMs)
  THEN state' = state /\ noNotify
  ELSE LET s1 == updatePixelsPerMs([state EXCEPT !.durationMs = durationMs])
           s2 == IF Gt(s1.viewportStartMs, durationMs)
                 THEN [s1 EXCEPT !.viewportStartMs = Zero]
                 ELSE s1
       IN  state' = s2 /\ notify(state')

\* autoScrollToTime bringing the time to the left edge, not the midpoint
autoScrollToTimeEdge(timeMs, marginRatio) ==
  LET viewportDurationMs == Div(state.viewportWidthPx, state.pixelsPerMs)
      leftMarginMs == Mul(viewportDurationMs, marginRatio)
      rightMarginMs == Mul(viewportDurationMs, Sub(N(1), marginRatio))
      relativeTimeMs == Sub(timeMs, state.viewportStartMs)
  IN  IF Lt(relativeTimeMs, leftMarginMs)
      THEN setViewportStartBody(MathMax(Zero, timeMs))
      ELSE IF Gt(relativeTimeMs, rightMarginMs)
      THEN setViewportStartBody(timeMs)
      ELSE state' = state /\ noNotify

\* autoScrollToTime moving the viewport by half its duration toward the
\* time instead of centring the time
autoScrollToTimeByPage(timeMs, marginRatio) ==
  LET viewportDurationMs == Div(state.viewportWidthPx, state.pixelsPerMs)
      leftMarginMs == Mul(viewportDurationMs, marginRatio)
      rightMarginMs == Mul(viewportDurationMs, Sub(N(1), marginRatio))
      relativeTimeMs == Sub(timeMs, state.viewportStartMs)
      page == Mul(viewportDurationMs, R(1, 2))
  IN  IF Lt(relativeTimeMs, leftMarginMs)
      THEN setViewportStartBody(MathMax(Zero,
                                        Sub(state.viewportStartMs, page)))
      ELSE IF Gt(relativeTimeMs, rightMarginMs)
      THEN setViewportStartBody(Add(state.viewportStartMs, page))
      ELSE state' = state /\ noNotify

autoScrollToTimeBody(timeMs, marginRatio) ==
  LET viewportDurationMs == Div(state.viewportWidthPx, state.pixelsPerMs)
      leftMarginMs == Mul(viewportDurationMs, marginRatio)
      rightMarginMs == Mul(viewportDurationMs, Sub(N(1), marginRatio))
      relativeTimeMs == Sub(timeMs, state.viewportStartMs)
      centre == Sub(timeMs, Mul(viewportDurationMs, R(1, 2)))
  IN  IF Lt(relativeTimeMs, leftMarginMs)
      THEN setViewportStartBody(MathMax(Zero, centre))
      ELSE IF Gt(relativeTimeMs, rightMarginMs)
      THEN setViewportStartBody(centre)
      ELSE state' = state /\ noNotify

timeToPixel(timeMs) == Mul(timeMs, state.pixelsPerMs)

\* pixelToTime re-deriving the scale from the width alone (zoom forgotten)
pixelToTimeUnzoomed(pixel) ==
  Div(pixel, Div(state.viewportWidthPx, state.durationMs))

pixelToTime(pixel) == Div(pixel, state.pixelsPerMs)

\* TimelineRenderer.timeToPixel / pixelToTime delegate to the viewport
rendererTimeToPixel(timeMs) == timeToPixel(timeMs)

rendererPixelToTime(pixel) == pixelToTime(pixel)

getTotalWidth == Mul(state.durationMs, state.pixelsPerMs)

getViewportEndMs ==
  Add(state.viewportStartMs, Div(state.viewportWidthPx, state.pixelsPerMs))

Called(op, arg, m) ==
  /\ lastCall' = [op |-> op, arg |-> arg, m |-> m]
  /\ UNCHANGED <<listeners, handles, revoked>>
  /\ UNCHANGED edVars
  /\ UNCHANGED frVars
  /\ UNCHANGED rnVars
  /\ UNCHANGED lpVars

setZoom == \E z \in ZoomInputs : setZoomBody(z) /\ Called("setZoom", z, Zero)

setViewportStart ==
  \E ms \in StartInputs :
    setViewportStartBody(ms) /\ Called("setViewportStart", ms, Zero)

setScrollLeft ==
  \E px \in ScrollLeftInputs :
    setScrollLeftBody(px) /\ Called("setScrollLeft", px, Zero)

setViewportWidth ==
  \E w \in WidthInputs :
    setViewportWidthBody(w) /\ Called("setViewportWidth", w, Zero)

setDuration ==
  \E d \in DurationInputs :
    setDurationBody(d) /\ Called("setDuration", d, Zero)

autoScrollToTime ==
  \E t \in AutoScrollTimes, m \in MarginRatios :
    autoScrollToTimeBody(t, m) /\ Called("autoScrollToTime", t, m)

Subscribe == \E c \in Callbacks : subscribe(c)

Unsubscribe == \E h \in handles : unsubscribe(h)

\* The editor as mounted by its parent: no notes, default props and tool
InitEditor ==
  /\ notes = <<>>
  /\ selectedNoteType = "tap"
  /\ isPlacingHold = FALSE
  /\ holdStartTime = Zero
  /\ holdStartLane = 0
  /\ bpm = N(120)
  /\ snapDivision = N(4)
  /\ emitted = <<>>
  /\ lastEvent = [kind |-> "mount", x |-> 0, y |-> 0, outcome |-> "none"]
  /\ cursor = <<>>
  /\ ghostNote = <<>>

\* a canvas element as created (300 x 150, identity transform) on a screen
\* of device pixel ratio 1
CANVAS_DEFAULT_WIDTH == 300
CANVAS_DEFAULT_HEIGHT == 150

newCanvas ==
  [width |-> CANVAS_DEFAULT_WIDTH, height |-> CANVAS_DEFAULT_HEIGHT,
   scale |-> N(1)]

InitBackingStore ==
  /\ canvases = [static |-> newCanvas, dynamic |-> newCanvas]
  /\ devicePixelRatio = N(1)

\* the editor's parent is the example app: no web component hosts it
NoElement ==
  /\ elementNotes = <<>>

\* new TimelineRenderer(staticCanvas, dynamicCanvas, viewport, config): the
\* field initialisers and the constructor
TimelineRenderer(config) ==
  [needsStaticRedraw |-> TRUE, cachedWidth |-> Zero, cachedHeight |-> Zero,
   config |-> config]

\* the renderer built by the editor's mount effect from its props
rendererRef ==
  TimelineRenderer([bpm |-> bpm, snapEnabled |-> snapEnabled,
                    snapDivision |-> snapDivision])

\* the canvases and the frame loop of an editor whose drawing is not
\* followed: the renderer as constructed, empty canvases, no frame requested
InitCanvases ==
  /\ NoElement
  /\ InitBackingStore
  /\ renderer = rendererRef
  /\ staticSurface = <<>>
  /\ dynamicSurface = {}
  /\ lastPass = <<>>
  /\ drawn = {}
  /\ containerWidth = N(100)
  /\ waveform = <<>>
  /\ currentTime = Zero
  /\ mounted = TRUE
  /\ pending = {}
  /\ animationFrameRef = 0
  /\ dynamicCalls = <<>>

InitSubscribers ==
  /\ listeners = {}
  /\ handles = {}
  /\ revoked = {}
  /\ delivered = [c \in Callbacks |-> <<>>]
  /\ notified = 0
  /\ lastCall = [op |-> "constructor", arg |-> Zero, m |-> Zero]

InitViewport ==
  /\ \E d \in DurationInputs, w \in WidthInputs : state = constructor(d, w)
  /\ InitSubscribers
  /\ InitEditor
  /\ snapEnabled = TRUE
  /\ InitCanvases

NextViewport ==
  \/ setZoom
  \/ setViewportStart
  \/ setScrollLeft
  \/ setViewportWidth
  \/ setDuration
  \/ autoScrollToTime
  \/ Subscribe
  \/ Unsubscribe

SpecViewport == InitViewport /\ [][NextViewport]_vars

----------------------------------------------------------------------------
(* Properties of the viewport (checked under SpecViewport)                 *)

Setters == {"setZoom", "setViewportWidth", "setViewportStart",
            "setScrollLeft", "setDuration"}

\* C1: whenever durationMs > 0 and pixelsPerMs > 0, the scroll position is
\* non-negative and the visible window ends at or before the duration:
\* viewportStartMs >= 0 and
\* viewportStartMs + viewportWidthPx / pixelsPerMs <= durationMs.
C1_ScrollClamped ==
  (Gt(state.durationMs, Zero) /\ Gt(state.pixelsPerMs, Zero)) =>
    /\ Ge(state.viewportStartMs, Zero)
    /\ Le(Add(state.viewportStartMs,
              Div(state.viewportWidthPx, state.pixelsPerMs)),
          state.durationMs)

\* C2: in every reachable state pixelsPerMs is the value derived from the
\* current width, zoom and duration: pixelsPerMs * durationMs =
\* viewportWidthPx * zoom when durationMs > 0 (NaN when the zoom is NaN),
\* and pixelsPerMs = 0 when durationMs = 0.
C2_PixelsPerMsDerived ==
  /\ Gt(state.durationMs, Zero) =>
       IF IsNaN(state.zoom) THEN IsNaN(state.pixelsPerMs)
       ELSE /\ isFinite(state.pixelsPerMs)
            /\ Mul(state.pixelsPerMs, state.durationMs) =
                 Mul(state.viewportWidthPx, state.zoom)
  /\ state.durationMs = Zero => state.pixelsPerMs = Zero

\* a setter changed the width or the zoom of a viewport with a duration
C2_Witness ==
  /\ lastCall.op \in {"setViewportWidth", "setZoom"}
  /\ notified = 1
  /\ Gt(state.durationMs, Zero)
  /\ Gt(state.viewportWidthPx, Zero)
  /\ state.zoom # N(1)

\* Times (ms) and pixels the conversions are sampled at
TimeSamples == {N(0), N(1), N(250), R(1001, 3), N(2000), N(4500)}
PixelSamples == {N(0), N(1), N(37), R(125, 2), N(800)}

ClampedValue(op, a) ==
  LET maxStart == MathMax(Zero, Sub(state.durationMs,
                    Div(state.viewportWidthPx, state.pixelsPerMs)))
  IN  CASE op = "setZoom" -> MathMin(N(20), MathMax(N(1), a))
        [] op = "setViewportStart" -> MathMin(MathMax(Zero, a), maxStart)
        [] op = "setScrollLeft" ->
             MathMin(MathMax(Zero, Div(a, state.pixelsPerMs)), maxStart)
        [] OTHER -> a

\* the field of state record s that setter op assigns
FieldOf(s, op) ==
  CASE op = "setZoom" -> s.zoom
    [] op = "setViewportWidth" -> s.viewportWidthPx
    [] op = "setDuration" -> s.durationMs
    [] OTHER -> s.viewportStartMs

\* C4: a setter whose clamped argument equals (===) the current value
\* changes nothing and calls no subscriber; any other setter call calls
\* every registered subscriber exactly once, with a snapshot equal to the
\* state after the mutation, and calls nobody else.
C4_NotifyDiscipline ==
  [][lastCall'.op \in Setters =>
      IF StrictEq(ClampedValue(lastCall'.op, lastCall'.arg),
                  FieldOf(state, lastCall'.op))
      THEN /\ state' = state
           /\ notified' = 0
           /\ \A c \in Callbacks : delivered'[c] = <<>>
      ELSE /\ FieldOf(state', lastCall'.op) =
                ClampedValue(lastCall'.op, lastCall'.arg)
           /\ notified' = 1
           /\ \A c \in listeners : delivered'[c] = <<state'>>
           /\ \A c \in Callbacks \ listeners : delivered'[c] = <<>>]_vars

\* two subscribers were notified of a duration change that reset the scroll
C4_Witness ==
  /\ lastCall.op = "setDuration"
  /\ listeners = Callbacks
  /\ \A c \in Callbacks : delivered[c] = <<state>>
  /\ state.viewportStartMs = Zero
  /\ state.zoom = N(5)

\* C5: every registration whose unsubscribe function has not been called
\* is notified by the next accepted mutation, whatever other registrations
\* (also of the same callback function) have been revoked.
C5_IndependentRevocation ==
  notified = 1 =>
    \A h \in handles : h.id \notin revoked => delivered[h.cb] # <<>>

\* the span of time the viewport shows
VisibleMs == Div(state.viewportWidthPx, state.pixelsPerMs)

\* the largest valid scroll position
MaxStartMs == MathMax(Zero, Sub(state.durationMs, VisibleMs))

\* the time passed to autoScrollToTime lies inside both margins
InsideMargins(timeMs, m) ==
  LET rel == Sub(timeMs, state.viewportStartMs)
  IN  /\ Le(Mul(m, VisibleMs), rel)
      /\ Le(rel, Mul(Sub(N(1), m), VisibleMs))

\* the step is an autoScrollToTime call on a viewport with a positive scale
\* and a numeric scroll position
AutoScrollStep ==
  /\ lastCall'.op = "autoScrollToTime"
  /\ Gt(state.pixelsPerMs, Zero)
  /\ ~IsNaN(state.viewportStartMs)

ProperViewport ==
  /\ Gt(state.durationMs, Zero)
  /\ Gt(state.viewportWidthPx, Zero)
  /\ Ge(state.zoom, N(1))
  /\ Le(state.zoom, N(20))

\* C14: on a viewport with durationMs > 0, viewportWidthPx > 0 and zoom in
\* [1, 20], setViewportStart(s) leaves viewportStartMs =
\* min(max(0, s), max(0, durationMs - viewportWidthPx / pixelsPerMs)) and
\* setScrollLeft(px) leaves what setViewportStart(px / pixelsPerMs) leaves;
\* neither changes another field.
C14_ScrollClamp ==
  [][(lastCall'.op \in {"setViewportStart", "setScrollLeft"}
      /\ ProperViewport)
     =>
     LET s == IF lastCall'.op = "setViewportStart" THEN lastCall'.arg
              ELSE Div(lastCall'.arg, state.pixelsPerMs)
     IN  state' = [state EXCEPT !.viewportStartMs =
                     MathMin(MathMax(Zero, s), MaxStartMs)]]_vars

\* at zoom 20 a scroll request beyond the bound stored exactly the bound
C14_Witness ==
  /\ lastCall.op \in {"setViewportStart", "setScrollLeft"}
  /\ notified = 1
  /\ state.zoom = N(20)
  /\ Gt(MaxStartMs, Zero)
  /\ state.viewportStartMs = MaxStartMs
  /\ Gt(IF lastCall.op = "setViewportStart" THEN lastCall.arg
        ELSE Div(lastCall.arg, state.pixelsPerMs),
        MaxStartMs)

\* C15: setDuration(d) with d different from the current duration stores
\* d, recomputes pixelsPerMs from it, sets viewportStartMs to 0 if the
\* previous viewportStartMs > d and leaves it unchanged otherwise, leaves
\* zoom and viewportWidthPx unchanged, and then notifies every subscriber
\* once with the resulting state.
C15_SetDuration ==
  [][(lastCall'.op = "setDuration"
      /\ ~StrictEq(lastCall'.arg, state.durationMs))
     =>
     LET d == lastCall'.arg IN
     /\ state'.durationMs = d
     /\ state'.zoom = state.zoom
     /\ state'.viewportWidthPx = state.viewportWidthPx
     /\ state'.viewportStartMs =
          (IF Gt(state.viewportStartMs, d) THEN Zero
           ELSE state.viewportStartMs)
     /\ IF d = Zero THEN state'.pixelsPerMs = Zero
        ELSE IF IsNaN(state.zoom) THEN IsNaN(state'.pixelsPerMs)
        ELSE /\ isFinite(state'.pixelsPerMs)
             /\ Mul(state'.pixelsPerMs, d) =
                  Mul(state.viewportWidthPx, state.zoom)
     /\ notified' = 1
     /\ \A c \in listeners : delivered'[c] = <<state'>>]_vars

\* a duration change with a subscriber kept a positive scroll position and
\* gave a new positive scale
C15_Witness ==
  /\ lastCall.op = "setDuration"
  /\ notified = 1
  /\ listeners # {}
  /\ Gt(state.viewportStartMs, Zero)
  /\ Gt(state.pixelsPerMs, Zero)
  /\ state.zoom = N(5)

\* C16: every setZoom call leaves the stored zoom within [1, 20] (1 for an
\* argument below 1, 20 for one above 20, the argument itself otherwise),
\* and a call that leaves the zoom at its current value changes nothing and
\* notifies no subscriber.
C16_ZoomClamped ==
  [][lastCall'.op = "setZoom" =>
      LET a == lastCall'.arg IN
      /\ Ge(state'.zoom, N(1))
      /\ Le(state'.zoom, N(20))
      /\ Lt(a, N(1)) => state'.zoom = N(1)
      /\ Gt(a, N(20)) => state'.zoom = N(20)
      /\ (Ge(a, N(1)) /\ Le(a, N(20))) => state'.zoom = a
      /\ state'.zoom = state.zoom =>
           /\ state' = state
           /\ notified' = 0
           /\ \A c \in Callbacks : delivered'[c] = <<>>]_vars

----------------------------------------------------------------------------
(* BeatmapEditor: note placement and deletion                              *)

LANES == 5
LANE_HEIGHT == 60
TAP_HIT_RADIUS == 15
TAP_CENTER_Y == 30
HOLD_HIT_TOP == 20
HOLD_HIT_HEIGHT == 20

\* Longest note collection the model lets a click extend
MaxNotes == 2

\* Pointer positions <<x, y>> of commit-clicks, in absolute timeline pixels
\* (x) and pixels below the top of the lane area (y): above the lanes, the
\* centre line of lane 0 at two times 10 px apart, 14 px below that centre
\* line, the centre line of lane 1, and just below the last lane
ClickPoints ==
  {<<30, -5>>, <<30, 30>>, <<40, 30>>, <<40, 44>>, <<30, 90>>, <<30, 300>>}

\* value || 0
OrZero(a) == IF IsNaN(a) \/ a = Zero THEN Zero ELSE a

\* the editor's pixelToTime: renderer.pixelToTime(pixel) / 1000 (seconds)
edPixelToTime(pixel) == Div(rendererPixelToTime(pixel), N(1000))

\* timeToPixel without the seconds-to-milliseconds conversion
edTimeToPixelUnscaled(time) == rendererTimeToPixel(time)

\* the editor's timeToPixel: renderer.timeToPixel(time * 1000)
edTimeToPixel(time) == rendererTimeToPixel(Mul(time, N(1000)))

\* snapToGrid truncating to the grid line before the click
snapToGridFloor(time) ==
  IF ~snapEnabled THEN time
  ELSE LET beatDuration == Div(N(60), bpm)
           snapInterval == Div(beatDuration, snapDivision)
       IN  Mul(MathFloor(Div(time, snapInterval)), snapInterval)

\* snapToGrid returning the grid line after the one at or before the time
snapToGridNextLine(time) ==
  IF ~snapEnabled THEN time
  ELSE LET beatDuration == Div(N(60), bpm)
           snapInterval == Div(beatDuration, snapDivision)
       IN  Mul(Add(MathFloor(Div(time, snapInterval)), N(1)), snapInterval)

snapToGrid(time) ==
  IF ~snapEnabled THEN time
  ELSE LET beatDuration == Div(N(60), bpm)
           snapInterval == Div(beatDuration, snapDivision)
       IN  Mul(MathRound(Div(time, snapInterval)), snapInterval)

\* Math.floor(y / LANE_HEIGHT)
laneOf(y) == y \div LANE_HEIGHT

\* the predicate of notes.find(...) in handleNoteClick; the distance test
\* sqrt(dx^2 + dy^2) <= 15 is evaluated on the squares
isHit(note, x, y) ==
  /\ note.lane = laneOf(y)
  /\ IF note.type = "tap"
     THEN LET noteX == edTimeToPixel(note.time)
              noteY == N(note.lane * LANE_HEIGHT + TAP_CENTER_Y)
              dx == Sub(N(x), noteX)
              dy == Sub(N(y), noteY)
          IN  Le(Add(Mul(dx, dx), Mul(dy, dy)),
                 N(TAP_HIT_RADIUS * TAP_HIT_RADIUS))
     ELSE LET startX == edTimeToPixel(note.time)
              endX == edTimeToPixel(Add(note.time, OrZero(note.duration)))
              noteY == note.lane * LANE_HEIGHT + HOLD_HIT_TOP
          IN  /\ Ge(N(x), startX)
              /\ Le(N(x), endX)
              /\ y >= noteY
              /\ y <= noteY + HOLD_HIT_HEIGHT

\* find returning the last matching note instead of the first
clickedNoteLast(x, y) ==
  LET hits == {i \in 1..Len(notes) : isHit(notes[i], x, y)}
  IN  IF hits = {} THEN 0
      ELSE CHOOSE i \in hits : \A j \in hits : i >= j

\* index of the note notes.find returns, 0 when it returns undefined
clickedNote(x, y) ==
  LET hits == {i \in 1..Len(notes) : isHit(notes[i], x, y)}
  IN  IF hits = {} THEN 0
      ELSE CHOOSE i \in hits : \A j \in hits : i <= j

\* notes.filter(n => n.id !== clickedNote.id)
withoutId(id) == SelectSeq(notes, LAMBDA n : n.id # id)

\* crypto.randomUUID(): an id no note of the collection carries
freshId == CHOOSE i \in 1..(Len(notes) + 1) :
             \A k \in 1..Len(notes) : notes[k].id # i

\* onNotesChange(c): the example app stores c and passes it back as the
\* notes prop; the web component's callback stores c in _notes and
\* dispatches noteschange without rendering the editor again, so the notes
\* prop keeps the collection of the last render()
onNotesChange(c) ==
  /\ emitted' = <<c>>
  /\ notes' = IF elementNotes = <<>> THEN c ELSE notes

noCallback ==
  /\ emitted' = <<>>
  /\ notes' = notes

\* handleNoteClick: returns true (and emits) iff a note was clicked
handleNoteClick(x, y) ==
  LET found == clickedNote(x, y) IN
  /\ found # 0
  /\ onNotesChange(withoutId(notes[found].id))
  /\ UNCHANGED <<isPlacingHold, holdStartTime, holdStartLane>>

\* the hold note anchored at its first click whatever the click order
newHoldNoteFromAnchor(laneIndex, clickTime) ==
  [id |-> freshId, lane |-> laneIndex, time |-> holdStartTime,
   type |-> "hold", duration |-> MathAbs(Sub(clickTime, holdStartTime))]

\* the note built by the "Complete hold note" branch
newHoldNote(laneIndex, clickTime) ==
  [id |-> freshId, lane |-> laneIndex,
   time |-> MathMin(holdStartTime, clickTime), type |-> "hold",
   duration |-> MathAbs(Sub(clickTime, holdStartTime))]

\* a lane mismatch that re-anchors nothing and keeps the old anchor
cancelHoldKeepingAnchor ==
  /\ noCallback
  /\ UNCHANGED <<isPlacingHold, holdStartTime, holdStartLane>>

\* the final else branch: second click on another lane
cancelHold ==
  /\ isPlacingHold' = FALSE
  /\ noCallback
  /\ UNCHANGED <<holdStartTime, holdStartLane>>

\* the lane test rejecting only positions above the first lane
outsideLanesAboveOnly(laneIndex) == laneIndex < 0

\* laneIndex < 0 || laneIndex >= LANES
outsideLanes(laneIndex) == laneIndex < 0 \/ laneIndex >= LANES

handleCanvasClick(x, y) ==
  LET laneIndex == laneOf(y)
      clickTime == snapToGrid(edPixelToTime(N(x)))
  IN
  IF outsideLanes(laneIndex)
  THEN noCallback /\ UNCHANGED <<isPlacingHold, holdStartTime, holdStartLane>>
  ELSE IF selectedNoteType = "tap"
  THEN /\ onNotesChange(Append(notes,
            [id |-> freshId, lane |-> laneIndex, time |-> clickTime,
             type |-> "tap"]))
       /\ UNCHANGED <<isPlacingHold, holdStartTime, holdStartLane>>
  ELSE IF ~isPlacingHold
  THEN /\ isPlacingHold' = TRUE
       /\ holdStartTime' = clickTime
       /\ holdStartLane' = laneIndex
       /\ noCallback
  ELSE IF holdStartLane = laneIndex
  THEN /\ onNotesChange(Append(notes, newHoldNote(laneIndex, clickTime)))
       /\ isPlacingHold' = FALSE
       /\ UNCHANGED <<holdStartTime, holdStartLane>>
  ELSE cancelHold

\* the interaction layer's onClick: delete first, place only if nothing hit
onClick(x, y) ==
  \/ handleNoteClick(x, y)
  \/ /\ clickedNote(x, y) = 0
     /\ handleCanvasClick(x, y)

\* TimelineRenderer.getGridAlignedX; the renderer's config holds the props
\* the updateConfig effect copied into it
getGridAlignedX(timeMs) ==
  IF ~snapEnabled \/ OrZero(bpm) = Zero \/ OrZero(snapDivision) = Zero
  THEN rendererTimeToPixel(timeMs)
  ELSE LET beatDurationMs == Mul(Div(N(60), bpm), N(1000))
           gridIntervalMs == Div(beatDurationMs, snapDivision)
           gridIndex == MathRound(Div(timeMs, gridIntervalMs))
       IN  rendererTimeToPixel(Mul(gridIndex, gridIntervalMs))

\* the x at which drawNotes draws a note
drawnX(note) ==
  LET noteTimeMs == Mul(note.time, N(1000))
  IN  MathRound(IF snapEnabled THEN getGridAlignedX(noteTimeMs)
                ELSE rendererTimeToPixel(noteTimeMs))

\* drawNotes' viewport culling: the note is drawn unless it ends before
\* the viewport starts or starts after the viewport ends
isDrawn(note) ==
  LET noteTimeMs == Mul(note.time, N(1000))
      noteEndMs == IF note.type = "hold" /\ OrZero(note.duration) # Zero
                   THEN Mul(Add(note.time, note.duration), N(1000))
                   ELSE noteTimeMs
  IN  ~(Lt(noteEndMs, state.viewportStartMs) \/ Gt(noteTimeMs, getViewportEndMs))

\* what a click did, read off the state change
outcomeOf ==
  IF Len(notes') < Len(notes) THEN "deleted"
  ELSE IF Len(notes') > Len(notes) THEN notes'[Len(notes')].type
  ELSE IF isPlacingHold' /\ ~isPlacingHold THEN "anchor"
  ELSE IF ~isPlacingHold' /\ isPlacingHold THEN "cancel"
  ELSE "none"

\* a commit-click at pointer position (x, y)
clickAt(x, y) ==
  /\ onClick(x, y)
  /\ Len(notes') <= MaxNotes
  /\ lastEvent' = [kind |-> "click", x |-> x, y |-> y,
                   outcome |-> outcomeOf]
  /\ UNCHANGED <<selectedNoteType, bpm, snapEnabled, snapDivision>>
  /\ UNCHANGED vpVars
  /\ UNCHANGED frVars
  /\ UNCHANGED rnVars
  /\ UNCHANGED lpVars

\* a commit-click at one of the modelled pointer positions
Click == \E p \in ClickPoints : clickAt(p[1], p[2])

\* the last event was a commit-click that appended a tap note
justPlacedTap ==
  /\ lastEvent.kind = "click"
  /\ lastEvent.outcome = "tap"

\* a commit-click on the drawn centre of the tap note just placed
ClickDrawn ==
  /\ justPlacedTap
  /\ isDrawn(notes[Len(notes)])
  /\ isFinite(drawnX(notes[Len(notes)]))
  /\ clickAt(drawnX(notes[Len(notes)])[1],
             notes[Len(notes)].lane * LANE_HEIGHT + TAP_CENTER_Y)

\* the Tap button
SelectTap ==
  /\ selectedNoteType' = "tap"
  /\ isPlacingHold' = FALSE
  /\ emitted' = <<>>
  /\ lastEvent' = [kind |-> "selectTap", x |-> 0, y |-> 0, outcome |-> "none"]
  /\ UNCHANGED <<notes, holdStartTime, holdStartLane, bpm, snapEnabled,
                 snapDivision>>
  /\ UNCHANGED vpVars
  /\ UNCHANGED frVars
  /\ UNCHANGED rnVars
  /\ UNCHANGED lpVars

\* the Hold button
SelectHold ==
  /\ selectedNoteType' = "hold"
  /\ emitted' = <<>>
  /\ lastEvent' = [kind |-> "selectHold", x |-> 0, y |-> 0, outcome |-> "none"]
  /\ UNCHANGED <<notes, isPlacingHold, holdStartTime, holdStartLane, bpm,
                 snapEnabled, snapDivision>>
  /\ UNCHANGED vpVars
  /\ UNCHANGED frVars
  /\ UNCHANGED rnVars
  /\ UNCHANGED lpVars

\* Clear All deleting without regard to the answer of the confirm dialog
handleClearAllUnconfirmed(confirmed) ==
  /\ IF Len(notes) = 0 THEN noCallback ELSE onNotesChange(<<>>)
  /\ UNCHANGED <<isPlacingHold, holdStartTime, holdStartLane>>

\* handleClearAll; confirmed is the answer window.confirm returns
handleClearAll(confirmed) ==
  /\ IF Len(notes) = 0 THEN noCallback
     ELSE IF confirmed THEN onNotesChange(<<>>)
     ELSE noCallback
  /\ UNCHANGED <<isPlacingHold, holdStartTime, holdStartLane>>

\* the Clear All button; the dialog is shown only for a non-empty collection
ClearAll ==
  \E confirmed \in BOOLEAN :
    /\ Len(notes) = 0 => confirmed
    /\ handleClearAll(confirmed)
    /\ lastEvent' = [kind |-> "clearAll", x |-> 0, y |-> 0,
                     outcome |-> IF Len(notes) = 0 THEN "none"
                                 ELSE IF confirmed THEN "confirmed"
                                 ELSE "declined"]
    /\ UNCHANGED <<selectedNoteType, bpm, snapEnabled, snapDivision>>
    /\ UNCHANGED vpVars
    /\ UNCHANGED frVars
    /\ UNCHANGED rnVars
    /\ UNCHANGED lpVars

\* Viewports the editor is mounted on: before audio is loaded (duration 0)
\* and with a 2 s track in a 100 px wide viewport after setZoom(10), which
\* gives 1/2 px per ms
InitEditorViewport ==
  \E d \in {N(0), N(2000)} :
    state = updatePixelsPerMs([constructor(d, N(100)) EXCEPT !.zoom = N(10)])

InitEd ==
  /\ InitEditorViewport
  /\ InitSubscribers
  /\ InitEditor
  /\ snapEnabled \in BOOLEAN
  /\ InitCanvases

NextEditor ==
  \/ Click
  \/ ClickDrawn
  \/ SelectTap
  \/ SelectHold
  \/ ClearAll

SpecEditor == InitEd /\ [][NextEditor]_vars

----------------------------------------------------------------------------
(* BeatmapEditor: the frame loop and the ghost note, under the bpm and     *)
(* snap division props a parent may pass                                   *)

\* Most notes a click at the cursor may leave in the collection
MaxFrameNotes == 1

\* bpm and snapDivision props: the defaults, another tempo, the 0 that
\* Number("") gives the parent for an emptied input field, and a negative
\* value
BpmInputs == {N(120), N(90), N(0), N(-120)}
DivisionInputs == {N(4), N(0)}

\* Pointer positions <<x, y>> of mouse moves: lane 0, lane 0 off-centre,
\* lane 1 further right, and above the lanes
CursorPoints == {<<30, 30>>, <<40, 44>>, <<100, 90>>, <<30, -5>>}

\* handleCanvasMouseMove: stores the raw pointer position in the refs
handleCanvasMouseMove ==
  /\ \E p \in CursorPoints : cursor' = p
  /\ UNCHANGED <<ghostNote>>
  /\ UNCHANGED edVars
  /\ UNCHANGED vpVars
  /\ UNCHANGED rnVars
  /\ UNCHANGED lpVars

\* handleCanvasMouseLeave: clears the refs
handleCanvasMouseLeave ==
  /\ cursor' = <<>>
  /\ UNCHANGED <<ghostNote>>
  /\ UNCHANGED edVars
  /\ UNCHANGED vpVars
  /\ UNCHANGED rnVars
  /\ UNCHANGED lpVars

\* the ghost note animate() resolves from the cursor refs: <<note>>, or
\* <<>> for null
\* a frame that resolves a ghost note for a cursor outside the lanes
ghostAnyLane(b, se) ==
  IF cursor = <<>> THEN <<>>
  ELSE <<[lane |-> laneOf(cursor[2]),
          time |-> Div(rendererPixelToTime(N(cursor[1])), N(1000)),
          type |-> selectedNoteType]>>

\* the ghost note of a frame loop whose closure still holds the bpm and
\* snapEnabled of the render before the change
ghostOfStaleProps(b, se) ==
  IF cursor = <<>> THEN <<>>
  ELSE LET laneIndex == laneOf(cursor[2])
           pixelTime == Div(rendererPixelToTime(N(cursor[1])), N(1000))
           beatDuration == Div(N(60), bpm)
           snapInterval == Div(beatDuration, snapDivision)
           hoverTime == IF snapEnabled
                        THEN Mul(MathRound(Div(pixelTime, snapInterval)),
                                 snapInterval)
                        ELSE pixelTime
       IN  IF laneIndex >= 0 /\ laneIndex < LANES
           THEN <<[lane |-> laneIndex, time |-> hoverTime,
                   type |-> selectedNoteType]>>
           ELSE <<>>

ghostFor(b, se) ==
  IF cursor = <<>> THEN <<>>
  ELSE LET laneIndex == laneOf(cursor[2])
           pixelTime == Div(rendererPixelToTime(N(cursor[1])), N(1000))
           beatDuration == Div(N(60), b)
           snapInterval == Div(beatDuration, snapDivision)
           hoverTime == IF se
                        THEN Mul(MathRound(Div(pixelTime, snapInterval)),
                                 snapInterval)
                        ELSE pixelTime
       IN  IF laneIndex >= 0 /\ laneIndex < LANES
           THEN <<[lane |-> laneIndex, time |-> hoverTime,
                   type |-> selectedNoteType]>>
           ELSE <<>>

\* the ghost note animate() resolves from the cursor refs, with the bpm and
\* snapEnabled its closure captured
ghostOfCursor == ghostFor(bpm, snapEnabled)

\* one run of the frame loop's animate(): converts the cursor position to
\* a time, snaps it, and hands the ghost note to renderDynamic
animate ==
  /\ ghostNote' = ghostOfCursor
  /\ UNCHANGED <<cursor>>
  /\ UNCHANGED edVars
  /\ UNCHANGED vpVars
  /\ UNCHANGED rnVars
  /\ UNCHANGED lpVars

\* a commit-click at the position the pointer was last moved to
ClickCursor ==
  /\ cursor # <<>>
  /\ clickAt(cursor[1], cursor[2])
  /\ Len(notes') <= MaxFrameNotes

\* the editor mounted with the props its parent passes
InitFrame ==
  /\ InitEditorViewport
  /\ InitSubscribers
  /\ notes = <<>>
  /\ selectedNoteType = "tap"
  /\ isPlacingHold = FALSE
  /\ holdStartTime = Zero
  /\ holdStartLane = 0
  /\ bpm \in BpmInputs
  /\ snapDivision \in DivisionInputs
  /\ snapEnabled \in BOOLEAN
  /\ emitted = <<>>
  /\ lastEvent = [kind |-> "mount", x |-> 0, y |-> 0, outcome |-> "none"]
  /\ cursor = <<>>
  /\ ghostNote = <<>>
  /\ InitCanvases

NextFrame ==
  \/ handleCanvasMouseMove
  \/ handleCanvasMouseLeave
  \/ animate
  \/ ClickCursor

SpecFrame == InitFrame /\ [][NextFrame]_vars

----------------------------------------------------------------------------
(* Properties of note placement and deletion (checked under SpecEditor)    *)

InLane(y) == y >= 0 /\ y < LANES * LANE_HEIGHT

NoHit(x, y) == \A i \in 1..Len(notes) : ~isHit(notes[i], x, y)

RemoveAt(s, i) == SubSeq(s, 1, i - 1) \o SubSeq(s, i + 1, Len(s))

\* T is the time a click at pixel x resolves to: the click time
\* (x / pixelsPerMs) / 1000 itself when snapping is off, and otherwise the
\* multiple k * interval of interval = (60 / bpm) / snapDivision with
\* k - 1/2 <= clickTime / interval < k + 1/2
IsClickTime(T, x) ==
  LET clickTime == Div(Div(N(x), state.pixelsPerMs), N(1000))
      interval == Div(Div(N(60), bpm), snapDivision)
      k == Div(T, interval)
      q == Div(clickTime, interval)
  IN  IF ~snapEnabled \/ ~isFinite(clickTime) THEN T = clickTime
      ELSE /\ isFinite(k)
           /\ k[2] = 1
           /\ Le(Sub(k, R(1, 2)), q)
           /\ Lt(q, Add(k, R(1, 2)))

\* c is collection `old` plus exactly one note appended at its end
AppendsOne(c, old) ==
  /\ Len(c) = Len(old) + 1
  /\ SubSeq(c, 1, Len(old)) = old
  /\ \A k \in 1..Len(old) : old[k].id # c[Len(c)].id

\* C6: Idle, tool Tap: a click inside a lane band that hits no note calls
\* the notes callback exactly once with the old collection plus one Tap
\* note appended, on the clicked lane, at the (snapped) click time; the
\* state stays Idle.
C6_TapPlacement ==
  [][(/\ lastEvent'.kind = "click"
      /\ selectedNoteType = "tap"
      /\ ~isPlacingHold
      /\ InLane(lastEvent'.y)
      /\ NoHit(lastEvent'.x, lastEvent'.y))
     =>
     (/\ Len(emitted') = 1
      /\ AppendsOne(emitted'[1], notes)
      /\ LET n == emitted'[1][Len(notes) + 1]
         IN  /\ n.type = "tap"
             /\ DOMAIN n = {"id", "lane", "time", "type"}
             /\ n.lane * LANE_HEIGHT <= lastEvent'.y
             /\ lastEvent'.y < (n.lane + 1) * LANE_HEIGHT
             /\ IsClickTime(n.time, lastEvent'.x)
      /\ ~isPlacingHold')]_vars

\* a snapped tap was appended to a non-empty collection at a time that is
\* not the raw click time
C6_Witness ==
  /\ lastEvent.kind = "click"
  /\ lastEvent.outcome = "tap"
  /\ snapEnabled
  /\ Len(notes) = 2
  /\ isFinite(notes[2].time)
  /\ notes[2].time # Div(Div(N(lastEvent.x), state.pixelsPerMs), N(1000))

\* C7: tool Hold: a first click (in a lane, no note hit) creates nothing,
\* calls nothing and records the anchor (lane, snapped time); a second
\* click on the anchor lane (no note hit) emits the collection plus one
\* Hold note on that lane with time = min(anchorTime, clickTime) and
\* duration = |clickTime - anchorTime|, and returns to Idle.
C7_HoldPlacement ==
  [][(/\ lastEvent'.kind = "click"
      /\ selectedNoteType = "hold"
      /\ InLane(lastEvent'.y)
      /\ NoHit(lastEvent'.x, lastEvent'.y))
     =>
     LET lane == lastEvent'.y \div LANE_HEIGHT IN
     /\ ~isPlacingHold =>
          /\ emitted' = <<>>
          /\ notes' = notes
          /\ isPlacingHold'
          /\ holdStartLane' = lane
          /\ IsClickTime(holdStartTime', lastEvent'.x)
     /\ (isPlacingHold /\ holdStartLane = lane) =>
          /\ Len(emitted') = 1
          /\ AppendsOne(emitted'[1], notes)
          /\ ~isPlacingHold'
          /\ LET n == emitted'[1][Len(notes) + 1]
             IN  /\ n.type = "hold"
                 /\ n.lane = lane
                 /\ \E ct \in {n.time, Add(n.time, n.duration), holdStartTime} :
                      /\ IsClickTime(ct, lastEvent'.x)
                      /\ n.time = MathMin(holdStartTime, ct)
                      /\ n.duration = MathAbs(Sub(ct, holdStartTime))]_vars

\* a hold was completed by a second click earlier than its anchor
C7_Witness ==
  /\ lastEvent.kind = "click"
  /\ lastEvent.outcome = "hold"
  /\ ~isPlacingHold
  /\ Len(notes) = 2
  /\ notes[2].type = "hold"
  /\ Lt(notes[2].time, holdStartTime)
  /\ Gt(notes[2].duration, Zero)

\* C8: with an anchor pending, a click on another lane (no note hit)
\* creates nothing, calls nothing and discards the anchor; the Hold click
\* after it records a new anchor instead of completing the old one.
C8_HoldCancel ==
  [][(/\ lastEvent'.kind = "click"
      /\ selectedNoteType = "hold"
      /\ InLane(lastEvent'.y)
      /\ NoHit(lastEvent'.x, lastEvent'.y))
     =>
     LET lane == lastEvent'.y \div LANE_HEIGHT IN
     /\ (isPlacingHold /\ holdStartLane # lane) =>
          /\ emitted' = <<>>
          /\ notes' = notes
          /\ ~isPlacingHold'
     /\ (lastEvent.kind = "click" /\ lastEvent.outcome = "cancel") =>
          /\ emitted' = <<>>
          /\ notes' = notes
          /\ isPlacingHold'
          /\ holdStartLane' = lane
          /\ IsClickTime(holdStartTime', lastEvent'.x)]_vars

\* an anchor was discarded by a click on another lane
C8_Witness ==
  /\ lastEvent.kind = "click"
  /\ lastEvent.outcome = "cancel"
  /\ ~isPlacingHold
  /\ selectedNoteType = "hold"
  /\ lastEvent.y \div LANE_HEIGHT # holdStartLane
  /\ Len(notes) = 1

\* C9: a click that hits at least one note emits the collection without
\* the first hit note (all others kept, in order), creates no note and
\* leaves the interaction state as it was.
C9_DeleteFirstHit ==
  [][(/\ lastEvent'.kind = "click"
      /\ ~NoHit(lastEvent'.x, lastEvent'.y))
     =>
     LET hits == {i \in 1..Len(notes) :
                    isHit(notes[i], lastEvent'.x, lastEvent'.y)}
         first == CHOOSE i \in hits : \A j \in hits : i <= j
     IN  /\ emitted' = <<RemoveAt(notes, first)>>
         /\ notes' = RemoveAt(notes, first)
         /\ UNCHANGED <<selectedNoteType, isPlacingHold, holdStartTime,
                        holdStartLane>>]_vars

\* the note ids of a collection are pairwise different
UniqueIds ==
  \A i, j \in 1..Len(notes) : notes[i].id = notes[j].id => i = j

\* a click deleted the first of two notes while an anchor was pending, and
\* the surviving note is hit at the same position
C9_Witness ==
  /\ lastEvent.kind = "click"
  /\ lastEvent.outcome = "deleted"
  /\ isPlacingHold
  /\ Len(notes) = 1
  /\ isHit(notes[1], lastEvent.x, lastEvent.y)

\* the click of this step is on the drawn centre of the tap just placed
ClicksDrawnTap ==
  /\ justPlacedTap
  /\ lastEvent'.kind = "click"
  /\ isDrawn(notes[Len(notes)])
  /\ isFinite(drawnX(notes[Len(notes)]))
  /\ N(lastEvent'.x) = drawnX(notes[Len(notes)])
  /\ lastEvent'.y = notes[Len(notes)].lane * LANE_HEIGHT + TAP_CENTER_Y

\* C10 as claimed: a click at the rendered position of the tap just placed
\* removes exactly that tap, restoring the collection from before the
\* placement.
C10_CreateDeleteAnyCollection ==
  [][ClicksDrawnTap => notes' = SubSeq(notes, 1, Len(notes) - 1)]_vars

\* C10 amended: a click at the rendered position of the tap just placed
\* removes exactly one note, the first note in collection order that is
\* hit there; that is the tap just placed, restoring the collection from
\* before the placement, whenever no earlier note of the collection is hit
\* at that position.
C10_CreateDelete ==
  [][ClicksDrawnTap =>
      LET last == Len(notes)
          earlier == {i \in 1..(last - 1) :
                        isHit(notes[i], lastEvent'.x, lastEvent'.y)}
      IN  /\ emitted' = <<notes'>>
          /\ earlier = {} => notes' = SubSeq(notes, 1, last - 1)
          /\ earlier # {} =>
               notes' = RemoveAt(notes, CHOOSE i \in earlier :
                                          \A j \in earlier : i <= j)]_vars

\* a click on a drawn position that is not the pointer position of the
\* placing click deleted a note and left the older note of the collection
C10_Witness ==
  /\ lastEvent.kind = "click"
  /\ lastEvent.outcome = "deleted"
  /\ \A p \in ClickPoints : p[1] # lastEvent.x
  /\ Len(notes) = 1
  /\ notes[1].id = 1

\* C11: every Hold note of the collection, and of every collection passed to
\* the notes callback, has duration > 0.
C11_HoldDurationPositive ==
  /\ \A i \in 1..Len(notes) :
       notes[i].type = "hold" => Gt(notes[i].duration, Zero)
  /\ \A k \in 1..Len(emitted) : \A i \in 1..Len(emitted[k]) :
       emitted[k][i].type = "hold" => Gt(emitted[k][i].duration, Zero)

\* the scale is a positive finite number
UsableScale == isFinite(state.pixelsPerMs) /\ Gt(state.pixelsPerMs, Zero)

\* C12: while pixelsPerMs is zero or not finite a commit-click creates no
\* note and sets no hold anchor, and no note or pending anchor has a time
\* that is not finite.
C12_NothingWithoutScale ==
  [][lastEvent'.kind = "click" =>
      /\ ~UsableScale =>
           /\ Len(notes') <= Len(notes)
           /\ isPlacingHold' => isPlacingHold
      /\ \A i \in 1..Len(notes') : isFinite(notes'[i].time)
      /\ isPlacingHold' => isFinite(holdStartTime')]_vars

\* C19: a commit-click outside every lane band calls no notes callback,
\* leaves the collection, the tool and the interaction state (a pending
\* hold anchor included) as they were; and after any commit-click every note
\* has a lane in 0 .. LANES - 1.
C19_OutsideLanesIgnored ==
  [][lastEvent'.kind = "click" =>
      /\ ~InLane(lastEvent'.y) =>
           /\ emitted' = <<>>
           /\ notes' = notes
           /\ UNCHANGED <<selectedNoteType, isPlacingHold, holdStartTime,
                          holdStartLane>>
      /\ \A i \in 1..Len(notes') : notes'[i].lane \in 0..(LANES - 1)]_vars

\* a click below the last lane was ignored while a hold anchor was pending
\* and the collection held a note
C19_Witness ==
  /\ lastEvent.kind = "click"
  /\ lastEvent.y >= LANES * LANE_HEIGHT
  /\ lastEvent.outcome = "none"
  /\ isPlacingHold
  /\ Len(notes) = 1
  /\ emitted = <<>>

\* C20: Clear All calls the notes callback exactly once, with the empty
\* collection, if and only if the collection is non-empty and the user
\* confirms; otherwise it calls nothing and the collection stays as it was.
C20_ClearAll ==
  [][lastEvent'.kind = "clearAll" =>
      IF Len(notes) > 0 /\ lastEvent'.outcome = "confirmed"
      THEN emitted' = << <<>> >> /\ notes' = <<>>
      ELSE emitted' = <<>> /\ notes' = notes]_vars

\* a confirmed Clear All replaced a non-empty collection by the empty one
C20_Witness ==
  /\ lastEvent.kind = "clearAll"
  /\ lastEvent.outcome = "confirmed"
  /\ emitted = << <<>> >>
  /\ notes = <<>>

----------------------------------------------------------------------------
(* Properties of snapping under any bpm and division (checked under        *)
(* SpecFrame)                                                              *)

\* C17: no time is computed from a non-positive bpm or snap division: with
\* snapping enabled on a viewport with a usable scale, every ghost time and
\* every note time is a finite non-negative number, as every time snapped
\* with a positive bpm and division is, and every note has a finite grid
\* position.
C17_ConfigClamped ==
  (UsableScale /\ snapEnabled) =>
    /\ \A k \in 1..Len(ghostNote) :
         isFinite(ghostNote[k].time) /\ Ge(ghostNote[k].time, Zero)
    /\ \A i \in 1..Len(notes) :
         /\ isFinite(notes[i].time)
         /\ Ge(notes[i].time, Zero)
         /\ isFinite(getGridAlignedX(Mul(notes[i].time, N(1000))))

\* Times (s) snapping is sampled at, half-way cases of the grid included
SnapSamples == {N(0), R(3, 50), R(1, 16), R(1, 12), R(1, 8), N(1), R(7, 3)}

----------------------------------------------------------------------------
(* TimelineRenderer: the static and the dynamic canvas                     *)

\* The objects one call works on, as the call finds them: the viewport
\* state, the renderer's fields and what the two canvases show
World ==
  [state |-> state, renderer |-> renderer, staticSurface |-> staticSurface,
   dynamicSurface |-> dynamicSurface, lastPass |-> lastPass, drawn |-> {}]

\* the objects as the call leaves them
commit(W) ==
  /\ state' = W.state
  /\ renderer' = W.renderer
  /\ staticSurface' = W.staticSurface
  /\ dynamicSurface' = W.dynamicSurface
  /\ lastPass' = W.lastPass
  /\ drawn' = W.drawn

\* the safeguard of renderStatic and renderDynamic:
\* !pixelsPerMs || pixelsPerMs <= 0 || !isFinite(pixelsPerMs)
invalidScale(s) ==
  \/ OrZero(s.pixelsPerMs) = Zero
  \/ Le(s.pixelsPerMs, Zero)
  \/ ~isFinite(s.pixelsPerMs)

\* viewport.getTotalWidth() and getViewportEndMs() on a given state
totalWidthOf(s) == Mul(s.durationMs, s.pixelsPerMs)

viewportEndMsOf(s) ==
  Add(s.viewportStartMs, Div(s.viewportWidthPx, s.pixelsPerMs))

\* drawNotes' culling test with the comparisons made strict at both edges
culledAtEdges(s, note) ==
  LET noteTimeMs == Mul(note.time, N(1000))
      noteEndMs == IF note.type = "hold" /\ OrZero(note.duration) # Zero
                   THEN Mul(Add(note.time, note.duration), N(1000))
                   ELSE noteTimeMs
  IN  Le(noteEndMs, s.viewportStartMs) \/ Ge(noteTimeMs, viewportEndMsOf(s))

\* drawNotes' viewport culling: the forEach callback returns early
culled(s, note) ==
  LET noteTimeMs == Mul(note.time, N(1000))
      noteEndMs == IF note.type = "hold" /\ OrZero(note.duration) # Zero
                   THEN Mul(Add(note.time, note.duration), N(1000))
                   ELSE noteTimeMs
  IN  Lt(noteEndMs, s.viewportStartMs) \/ Gt(noteTimeMs, viewportEndMsOf(s))

\* the notes drawNotes draws a shape for: not culled, and a tap or a hold
\* with a truthy duration
drawNotes(s, ns) ==
  SelectSeq(ns, LAMBDA note :
    /\ ~culled(s, note)
    /\ \/ note.type = "tap"
       \/ note.type = "hold" /\ OrZero(note.duration) # Zero)

\* drawBeatGrid draws lines unless bpm === 0 || duration === 0
drawBeatGrid(s, config) ==
  IF StrictEq(config.bpm, Zero) \/ StrictEq(Div(s.durationMs, N(1000)), Zero)
  THEN {}
  ELSE {"grid"}

\* renderStatic with the dirty-flag test left out
renderStaticAlways(W, ns) ==
  IF invalidScale(W.state) THEN W
  ELSE LET shapes == drawNotes(W.state, ns)
           pass == [notes |-> ns, shapes |-> shapes,
                    bpm |-> W.renderer.config.bpm, state |-> W.state]
       IN  [W EXCEPT !.staticSurface = <<pass>>,
                     !.lastPass = <<pass>>,
                     !.renderer.needsStaticRedraw = FALSE,
                     !.drawn = {"background", "lanes", "labels"}
                                 \cup drawBeatGrid(W.state, W.renderer.config)
                                 \cup (IF shapes = <<>> THEN {} ELSE {"notes"})]

\* renderStatic drawing on an invalid scale as on a valid one
renderStaticUnguarded(W, ns) ==
  IF ~W.renderer.needsStaticRedraw THEN W
  ELSE LET shapes == drawNotes(W.state, ns)
           pass == [notes |-> ns, shapes |-> shapes,
                    bpm |-> W.renderer.config.bpm, state |-> W.state]
       IN  [W EXCEPT !.staticSurface = <<pass>>,
                     !.lastPass = <<pass>>,
                     !.renderer.needsStaticRedraw = FALSE,
                     !.drawn = {"background", "lanes", "labels"}
                                 \cup drawBeatGrid(W.state, W.renderer.config)
                                 \cup (IF shapes = <<>> THEN {} ELSE {"notes"})]

\* renderStatic(notes): returns early while the flag is clear and on an
\* invalid scale; a pass fills the background, draws grid, lane dividers,
\* labels and notes, and clears the flag
renderStatic(W, ns) ==
  IF ~W.renderer.needsStaticRedraw THEN W
  ELSE IF invalidScale(W.state) THEN W
  ELSE LET shapes == drawNotes(W.state, ns)
           pass == [notes |-> ns, shapes |-> shapes,
                    bpm |-> W.renderer.config.bpm, state |-> W.state]
       IN  [W EXCEPT !.staticSurface = <<pass>>,
                     !.lastPass = <<pass>>,
                     !.renderer.needsStaticRedraw = FALSE,
                     !.drawn = {"background", "lanes", "labels"}
                                 \cup drawBeatGrid(W.state, W.renderer.config)
                                 \cup (IF shapes = <<>> THEN {} ELSE {"notes"})]

\* TimelineRenderer.getGridAlignedX on a given state and config
gridAlignedX(s, config, timeMs) ==
  IF ~config.snapEnabled \/ OrZero(config.bpm) = Zero
       \/ OrZero(config.snapDivision) = Zero
  THEN Mul(timeMs, s.pixelsPerMs)
  ELSE LET beatDurationMs == Mul(Div(N(60), config.bpm), N(1000))
           gridIntervalMs == Div(beatDurationMs, config.snapDivision)
           gridIndex == MathRound(Div(timeMs, gridIntervalMs))
       IN  Mul(Mul(gridIndex, gridIntervalMs), s.pixelsPerMs)

\* ctx.clearRect(0, 0, totalWidth, cachedHeight) on the dynamic canvas: the
\* shapes left of totalWidth go
clearRect(shapes, totalWidth) ==
  {sh \in shapes : ~Lt(sh.x, totalWidth)}

\* the shapes renderDynamic draws on a valid scale
dynamicShapes(W, currentTimeMs, ghost, snapHighlightTimeMs) ==
  LET s == W.state
      config == W.renderer.config
      highlight ==
        IF config.snapEnabled /\ snapHighlightTimeMs # <<>>
        THEN {[kind |-> "highlight",
               x |-> MathRound(gridAlignedX(s, config,
                                            snapHighlightTimeMs[1]))]}
        ELSE {}
      playhead ==
        {[kind |-> "playhead",
          x |-> MathRound(Mul(currentTimeMs, s.pixelsPerMs))]}
      ghostShape ==
        IF ghost # <<>>
        THEN {[kind |-> "ghost",
               x |-> MathRound(
                       IF config.snapEnabled
                       THEN gridAlignedX(s, config,
                                         Mul(ghost[1].time, N(1000)))
                       ELSE Mul(Mul(ghost[1].time, N(1000)), s.pixelsPerMs))]}
        ELSE {}
  IN  highlight \cup playhead \cup ghostShape

\* renderDynamic(currentTimeMs, ghostNote, snapHighlightTimeMs = null)
renderDynamic(W, currentTimeMs, ghost, snapHighlightTimeMs) ==
  IF invalidScale(W.state)
  THEN [W EXCEPT !.dynamicSurface =
                    clearRect(W.dynamicSurface, totalWidthOf(W.state)),
                 !.drawn = {"clear"}]
  ELSE LET new == dynamicShapes(W, currentTimeMs, ghost, snapHighlightTimeMs)
       IN  [W EXCEPT !.dynamicSurface =
                        clearRect(W.dynamicSurface, totalWidthOf(W.state))
                          \cup new,
                     !.drawn = {"clear"} \cup {sh.kind : sh \in new}]

\* updateCanvasSize(width, height): nothing if the size is the cached one;
\* otherwise both canvases get the new size, which clears them, and the
\* static layer is marked dirty
updateCanvasSize(W, width, height) ==
  IF StrictEq(W.renderer.cachedWidth, width)
       /\ StrictEq(W.renderer.cachedHeight, height)
  THEN W
  ELSE [W EXCEPT !.renderer.cachedWidth = width,
                 !.renderer.cachedHeight = height,
                 !.renderer.needsStaticRedraw = TRUE,
                 !.staticSurface = <<>>,
                 !.dynamicSurface = {}]

\* updateConfig(config) with the three keys the editor passes
updateConfig(W, config) ==
  LET old == W.renderer.config
      changed == \/ ~StrictEq(old.bpm, config.bpm)
                 \/ old.snapEnabled # config.snapEnabled
                 \/ ~StrictEq(old.snapDivision, config.snapDivision)
  IN  IF changed
      THEN [W EXCEPT !.renderer.config = config,
                     !.renderer.needsStaticRedraw = TRUE]
      ELSE W

\* forceStaticRedraw()
forceStaticRedraw(W) == [W EXCEPT !.renderer.needsStaticRedraw = TRUE]

\* the listener the constructor subscribes to the viewport
onViewportChange(W) == [W EXCEPT !.renderer.needsStaticRedraw = TRUE]


\* The viewport's setters as functions of a state: the state the call
\* leaves, and whether it reached notify()
zoomTo(s, z) ==
  LET zoom == MathMax(N(1), MathMin(N(20), z))
  IN  IF StrictEq(s.zoom, zoom)
      THEN [state |-> s, notified |-> FALSE]
      ELSE [state |-> updatePixelsPerMs([s EXCEPT !.zoom = zoom]),
            notified |-> TRUE]

startTo(s, ms) ==
  LET maxScroll == MathMax(Zero, Sub(s.durationMs,
                             Div(s.viewportWidthPx, s.pixelsPerMs)))
      startMs == MathMax(Zero, MathMin(maxScroll, ms))
  IN  IF StrictEq(s.viewportStartMs, startMs)
      THEN [state |-> s, notified |-> FALSE]
      ELSE [state |-> [s EXCEPT !.viewportStartMs = startMs],
            notified |-> TRUE]

scrollLeftTo(s, scrollLeftPx) == startTo(s, Div(scrollLeftPx, s.pixelsPerMs))

widthTo(s, widthPx) ==
  IF StrictEq(s.viewportWidthPx, widthPx)
  THEN [state |-> s, notified |-> FALSE]
  ELSE [state |-> updatePixelsPerMs([s EXCEPT !.viewportWidthPx = widthPx]),
        notified |-> TRUE]

durationTo(s, durationMs) ==
  IF StrictEq(s.durationMs, durationMs)
  THEN [state |-> s, notified |-> FALSE]
  ELSE LET s1 == updatePixelsPerMs([s EXCEPT !.durationMs = durationMs])
       IN  [state |-> IF Gt(s1.viewportStartMs, durationMs)
                      THEN [s1 EXCEPT !.viewportStartMs = Zero]
                      ELSE s1,
            notified |-> TRUE]

autoScrollTo(s, timeMs, marginRatio) ==
  LET viewportDurationMs == Div(s.viewportWidthPx, s.pixelsPerMs)
      leftMarginMs == Mul(viewportDurationMs, marginRatio)
      rightMarginMs == Mul(viewportDurationMs, Sub(N(1), marginRatio))
      relativeTimeMs == Sub(timeMs, s.viewportStartMs)
      centre == Sub(timeMs, Mul(viewportDurationMs, R(1, 2)))
  IN  IF Lt(relativeTimeMs, leftMarginMs)
      THEN startTo(s, MathMax(Zero, centre))
      ELSE IF Gt(relativeTimeMs, rightMarginMs)
      THEN startTo(s, centre)
      ELSE [state |-> s, notified |-> FALSE]

----------------------------------------------------------------------------
(* The renderer driven call by call, on a viewport its client also changes *)

\* Notes a client draws: before, touching, straddling and inside a viewport
\* that shows 250 ms .. 1250 ms, after it, and a hold of duration 0
TapAt(id, time) == [id |-> id, lane |-> 0, time |-> time, type |-> "tap"]

HoldAt(id, time, duration) ==
  [id |-> id, lane |-> 1, time |-> time, type |-> "hold",
   duration |-> duration]

NoteCollections ==
  {<<>>,
   <<TapAt(1, R(1, 10)), TapAt(2, R(1, 4)), HoldAt(3, R(1, 10), R(3, 20)),
     HoldAt(4, R(1, 2), Zero)>>,
   <<HoldAt(1, R(1, 10), R(1, 5)), TapAt(2, R(5, 4)), TapAt(3, R(3, 2))>>}

\* Arguments of the calls: zoom factors (NaN included, see ZoomInputs),
\* durations (ms), scroll positions (ms), canvas widths, playback times
\* (ms), ghost notes and highlights; a highlight is passed with a ghost
RenderZooms == {N(1), N(2), NaN}
RenderDurations == {N(0), N(2000)}
RenderStarts == {N(0), N(250)}
CanvasWidths == {N(200)}
RenderTimes == {N(400)}
GhostNotes == {<<>>, <<[lane |-> 0, time |-> R(1, 2), type |-> "tap"]>>}
SnapHighlights == {<<>>, <<N(600)>>}
RenderConfigs ==
  {[bpm |-> b, snapEnabled |-> TRUE, snapDivision |-> N(4)] :
     b \in {N(120), N(90)}}

\* a call of a renderer method or a viewport setter: everything outside the
\* renderer, the viewport state and the canvases is left alone
RendererCall(op, W) ==
  /\ commit(W)
  /\ lastCall' = [op |-> op, arg |-> Zero, m |-> Zero]
  /\ UNCHANGED <<listeners, handles, revoked, delivered>>
  /\ UNCHANGED <<containerWidth, waveform, exVars>>
  /\ UNCHANGED edVars
  /\ UNCHANGED frVars
  /\ UNCHANGED lpVars

RenderStatic ==
  \E ns \in NoteCollections :
    /\ RendererCall("renderStatic", renderStatic(World, ns))
    /\ notified' = 0

RenderDynamic ==
  \E t \in RenderTimes, g \in GhostNotes, h \in SnapHighlights :
    /\ (g = <<>>) <=> (h = <<>>)
    /\ RendererCall("renderDynamic", renderDynamic(World, t, g, h))
    /\ notified' = 0

UpdateCanvasSize ==
  \E w \in CanvasWidths :
    /\ RendererCall("updateCanvasSize",
                    updateCanvasSize(World, w, N(LANES * LANE_HEIGHT)))
    /\ notified' = 0

UpdateConfig ==
  \E c \in RenderConfigs :
    /\ RendererCall("updateConfig", updateConfig(World, c))
    /\ notified' = 0

ForceStaticRedraw ==
  /\ RendererCall("forceStaticRedraw", forceStaticRedraw(World))
  /\ notified' = 0

\* a setter call by the viewport's client; an accepted one reaches the
\* renderer's listener through notify()
ViewportChange ==
  \E r \in {zoomTo(state, z) : z \in RenderZooms}
           \cup {durationTo(state, d) : d \in RenderDurations}
           \cup {startTo(state, ms) : ms \in RenderStarts} :
    /\ RendererCall("viewport",
                    IF r.notified
                    THEN onViewportChange([World EXCEPT !.state = r.state])
                    ELSE World)
    /\ notified' = IF r.notified THEN 1 ELSE 0

InitRenderer ==
  /\ state = constructor(N(2000), N(100))
  /\ InitSubscribers
  /\ InitEditor
  /\ snapEnabled = TRUE
  /\ InitCanvases

NextRenderer ==
  \/ RenderStatic
  \/ RenderDynamic
  \/ UpdateCanvasSize
  \/ UpdateConfig
  \/ ForceStaticRedraw
  \/ ViewportChange

SpecRenderer == InitRenderer /\ [][NextRenderer]_vars


----------------------------------------------------------------------------
(* Properties of the renderer (checked under SpecRenderer)                 *)

\* a Note of the data model: a Tap, or a Hold with a positive duration
IsNote(note) ==
  \/ note.type = "tap"
  \/ note.type = "hold" /\ Gt(note.duration, Zero)

\* the culling rule as stated: the note ends before the viewport starts or
\* starts after the viewport ends
EndsBeforeOrStartsAfter(s, note) ==
  LET noteStartMs == Mul(note.time, N(1000))
      noteEndMs == IF note.type = "tap" THEN noteStartMs
                   ELSE Add(noteStartMs, Mul(note.duration, N(1000)))
      viewportEndMs == Add(s.viewportStartMs,
                           Div(s.viewportWidthPx, s.pixelsPerMs))
  IN  Lt(noteEndMs, s.viewportStartMs) \/ Gt(noteStartMs, viewportEndMs)

\* the static pass p drew a shape for the note
DrewNote(p, note) == \E j \in 1..Len(p.shapes) : p.shapes[j] = note

\* C21: in a completed static pass a note (a Tap, or a Hold with a positive
\* duration) is skipped by the note-drawing step if and only if it ends
\* before viewportStartMs or starts after viewportEndMs =
\* viewportStartMs + viewportWidthPx / pixelsPerMs; a note touching or
\* straddling either edge is drawn.
C21_Culling ==
  \A k \in 1..Len(lastPass) :
    \A i \in 1..Len(lastPass[k].notes) :
      LET note == lastPass[k].notes[i] IN
      IsNote(note) =>
        (DrewNote(lastPass[k], note) <=>
           ~EndsBeforeOrStartsAfter(lastPass[k].state, note))

\* on a viewport showing 250 ms .. 1250 ms a pass skipped the tap at 100 ms
\* and drew the tap at 250 ms and the hold that ends at 250 ms
C21_Witness ==
  /\ lastPass # <<>>
  /\ lastPass[1].state.viewportStartMs = N(250)
  /\ viewportEndMsOf(lastPass[1].state) = N(1250)
  /\ lastPass[1].notes =
       <<TapAt(1, R(1, 10)), TapAt(2, R(1, 4)), HoldAt(3, R(1, 10), R(3, 20)),
         HoldAt(4, R(1, 2), Zero)>>
  /\ lastPass[1].shapes = <<TapAt(2, R(1, 4)), HoldAt(3, R(1, 10), R(3, 20))>>


\* C22: when pixelsPerMs is zero, negative or non-finite, renderStatic
\* performs no drawing operation at all and leaves the static canvas as it
\* was, and renderDynamic draws neither snap highlight, playhead nor ghost
\* note (it only clears); both calls return to their caller.
C22_NothingOnInvalidScale ==
  [][(~UsableScale /\ lastCall'.op \in {"renderStatic", "renderDynamic"}) =>
       /\ drawn' \subseteq {"clear"}
       /\ staticSurface' = staticSurface
       /\ lastPass' = lastPass
       /\ dynamicSurface' \subseteq dynamicSurface
       /\ lastCall'.op = "renderStatic" => drawn' = {}]_vars

\* while the duration was 0, with an earlier pass still on the static canvas
\* and the layer dirty, renderDynamic was called and only cleared
C22_Witness ==
  /\ state.durationMs = Zero
  /\ state.pixelsPerMs = Zero
  /\ renderer.needsStaticRedraw
  /\ staticSurface # <<>>
  /\ lastCall.op = "renderDynamic"
  /\ drawn = {"clear"}

\* C28: renderStatic performs a draw pass only when the dirty flag is set,
\* and a completed pass clears the flag; a renderStatic call made while the
\* flag is clear draws nothing and changes no renderer state, whatever
\* note collection is passed; the flag is set only by a viewport
\* notification, forceStaticRedraw, an updateConfig that changes a value or
\* an updateCanvasSize that changes the size.
C28_DirtyFlag ==
  [][/\ lastCall'.op = "renderStatic" =>
          /\ drawn' # {} => /\ renderer.needsStaticRedraw
                            /\ ~renderer'.needsStaticRedraw
                            /\ lastPass' # <<>>
                            /\ staticSurface' = lastPass'
          /\ ~renderer.needsStaticRedraw =>
               /\ drawn' = {}
               /\ renderer' = renderer
               /\ staticSurface' = staticSurface
               /\ lastPass' = lastPass
     /\ lastCall'.op # "renderStatic" =>
          /\ lastPass' = lastPass
          /\ renderer.needsStaticRedraw => renderer'.needsStaticRedraw
     /\ (~renderer.needsStaticRedraw /\ renderer'.needsStaticRedraw) =>
          \/ lastCall'.op = "viewport" /\ notified' = 1
          \/ lastCall'.op = "forceStaticRedraw"
          \/ lastCall'.op = "updateConfig"
               /\ renderer'.config # renderer.config
          \/ lastCall'.op = "updateCanvasSize"
               /\ <<renderer'.cachedWidth, renderer'.cachedHeight>> #
                    <<renderer.cachedWidth, renderer.cachedHeight>>]_vars

\* on a valid scale renderStatic was called while the flag was clear: it
\* drew nothing and the canvas still shows the earlier pass
C28_Witness ==
  /\ UsableScale
  /\ lastCall.op = "renderStatic"
  /\ ~renderer.needsStaticRedraw
  /\ drawn = {}
  /\ staticSurface # <<>>


----------------------------------------------------------------------------
(* A session: a parent drives the viewport and the props of a mounted      *)
(* BeatmapEditor, and the browser delivers resize, scroll and frame events *)

\* Container widths (px), and what the parent passes or sets: zoom factors,
\* durations (ms), tempos and note collections
ContainerWidths == {N(100), N(80)}
SessionZooms == {N(1), N(2)}
SessionDurations == {N(0), N(2000)}
SessionBpms == {N(120), N(90)}
SessionNotes ==
  {<<>>, <<TapAt(1, R(1, 10)), HoldAt(2, R(1, 2), R(1, 2)),
           TapAt(3, R(3, 2))>>}

\* the subscribers of a mounted session, in subscription order
SessionListeners == {"renderer", "editor"}

RECURSIVE updateSize(_, _, _, _)

\* the editor's callback skipping the forced static pass
editorListenerResizeOnly(W, cw, ns, ls) == updateSize(W, cw, ns, ls)

\* the editor's viewport subscription callback; ns is the notes prop of
\* the render whose effect subscribed it
editorListener(W, cw, ns, ls) ==
  renderStatic(forceStaticRedraw(updateSize(W, cw, ns, ls)), ns)

\* viewport.notify() with the session's listeners: the renderer's listener,
\* subscribed by its constructor, then the editor's
notifyListeners(W, cw, ns, ls) ==
  LET W1 == IF "renderer" \in ls THEN onViewportChange(W) ELSE W
  IN  IF "editor" \in ls THEN editorListener(W1, cw, ns, ls) ELSE W1

\* a viewport setter's result r applied in a session
applySetter(W, r, cw, ns, ls) ==
  IF r.notified
  THEN notifyListeners([W EXCEPT !.state = r.state], cw, ns, ls)
  ELSE W

\* updateSize(): reads the total width, passes the container's width to the
\* viewport (whose notification runs the listeners before the call returns)
\* and then sizes the canvases
updateSize(W, cw, ns, ls) ==
  LET width == totalWidthOf(W.state)
      height == N(LANES * LANE_HEIGHT)
      W1 == applySetter(W, widthTo(W.state, cw), cw, ns, ls)
  IN  updateCanvasSize(W1, MathMax(width, cw), height)

\* the static render effect: forceStaticRedraw(); renderStatic(notes)
staticRenderEffect(W, ns) == renderStatic(forceStaticRedraw(W), ns)

\* requestAnimationFrame: a handle no pending request and no ref holds
requestAnimationFrame(P, ref) ==
  CHOOSE h \in 1..(Cardinality(P) + 2) :
    /\ h \notin P \cup {ref}
    /\ \A k \in 1..(h - 1) : k \in P \cup {ref}

\* cancelAnimationFrame(handle), called only if the ref is truthy
\* a cleanup that leaves the requested frame pending
cancelNothing(P, ref) == P

cancelAnimationFrame(P, ref) == IF ref # 0 THEN P \ {ref} ELSE P

\* animate(): resolves the ghost note, calls renderDynamic once and
\* requests the next frame; P is the set of requests still pending
animateWith(W, P, t, ghost) ==
  LET handle == requestAnimationFrame(P, animationFrameRef)
  IN  [world |-> renderDynamic(W, Mul(t, N(1000)), ghost, <<>>),
       pending |-> P \cup {handle},
       animationFrameRef |-> handle,
       dynamicCalls |-> <<[currentTimeMs |-> Mul(t, N(1000)),
                           ghostNote |-> ghost]>>]

runAnimate(W, P, t) == animateWith(W, P, t, ghostOfCursor)

\* what one session step leaves besides the props it changes
SessionStep(W) ==
  /\ commit(W)
  /\ emitted' = <<>>
  /\ UNCHANGED lastEvent
  /\ UNCHANGED <<listeners, handles, revoked, delivered, notified, lastCall>>
  /\ UNCHANGED <<selectedNoteType, isPlacingHold, holdStartTime,
                 holdStartLane, snapEnabled, snapDivision>>
  /\ UNCHANGED <<cursor, mounted, waveform, exVars>>

\* the step runs no animate()
NoFrame == UNCHANGED <<pending, animationFrameRef, dynamicCalls, ghostNote>>

\* the parent's zoom effect: viewport.setZoom(zoom / 100)
ParentSetZoom ==
  \E z \in SessionZooms :
    LET r == zoomTo(state, z) IN
    /\ SessionStep(applySetter(World, r, containerWidth, notes,
                                       listeners))
    /\ NoFrame
    /\ UNCHANGED <<notes, bpm, containerWidth, currentTime>>

\* the parent's duration effect: viewport.setDuration(duration * 1000)
ParentSetDuration ==
  \E d \in SessionDurations :
    LET r == durationTo(state, d) IN
    /\ SessionStep(applySetter(World, r, containerWidth, notes,
                                           listeners))
    /\ NoFrame
    /\ UNCHANGED <<notes, bpm, containerWidth, currentTime>>

\* the window's resize event after the container got another width
WindowResize ==
  \E cw \in ContainerWidths \ {containerWidth} :
    LET W == updateSize(World, cw, notes, listeners) IN
    /\ SessionStep(W)
    /\ containerWidth' = cw
    /\ NoFrame
    /\ UNCHANGED <<notes, bpm, currentTime>>

\* Scroll positions (px) of the container's scroll events
ScrollPositions == {N(0), N(50)}

\* handleScroll; the container scrolls no further than the canvas is wide
handleScroll ==
  \E px \in ScrollPositions :
    LET r == scrollLeftTo(state, px)
        W == applySetter(World, r, containerWidth, notes, listeners)
    IN
    /\ Le(px, Sub(renderer.cachedWidth, containerWidth))
    /\ SessionStep(staticRenderEffect(W, notes))
    /\ NoFrame
    /\ UNCHANGED <<notes, bpm, containerWidth, currentTime>>

\* the parent passes another notes collection: the resize effect
\* unsubscribes, runs updateSize() and subscribes again, then the static
\* render effect runs
NotesChanged ==
  \E ns \in SessionNotes \ {notes} :
    LET W1 == updateSize(World, containerWidth, ns, listeners \ {"editor"})
    IN
    /\ SessionStep(staticRenderEffect(W1, ns))
    /\ notes' = ns
    /\ NoFrame
    /\ UNCHANGED <<bpm, containerWidth, currentTime>>

\* the parent passes another bpm: the updateConfig effect, the static
\* render effect, and the frame loop effect's cleanup and restart
BpmChanged ==
  \E b \in SessionBpms \ {bpm} :
    LET W1 == updateConfig(World, [bpm |-> b, snapEnabled |-> snapEnabled,
                                   snapDivision |-> snapDivision])
        W2 == staticRenderEffect(W1, notes)
        a == animateWith(W2, cancelAnimationFrame(pending, animationFrameRef),
                         currentTime, ghostFor(b, snapEnabled))
    IN
    /\ mounted
    /\ SessionStep(a.world)
    /\ bpm' = b
    /\ pending' = a.pending
    /\ animationFrameRef' = a.animationFrameRef
    /\ dynamicCalls' = a.dynamicCalls
    /\ ghostNote' = ghostFor(b, snapEnabled)
    /\ UNCHANGED <<notes, containerWidth, currentTime>>

\* the browser runs a pending frame callback
Tick ==
  \E h \in pending :
    \E a \in {runAnimate(World, pending \ {h}, currentTime)} :
    /\ SessionStep(a.world)
    /\ pending' = a.pending
    /\ animationFrameRef' = a.animationFrameRef
    /\ dynamicCalls' = a.dynamicCalls
    /\ ghostNote' = ghostOfCursor
    /\ UNCHANGED <<notes, bpm, containerWidth, currentTime>>

\* the editor as mounted on new TimelineViewport(0, 800): its effects in
\* order: renderer, updateConfig, updateSize and subscription, static
\* render, first animate()
mountEditorOn(s, cw) ==
  LET W0 == [state |-> s,
             renderer |-> rendererRef,
             staticSurface |-> <<>>, dynamicSurface |-> {},
             lastPass |-> <<>>, drawn |-> {}]
      W1 == updateConfig(W0, rendererRef.config)
      W2 == updateSize(W1, cw, notes, {"renderer"})
  IN  staticRenderEffect(W2, notes)

mountEditor(cw) == mountEditorOn(constructor(N(0), N(800)), cw)

InitSession ==
  /\ listeners = SessionListeners
  /\ handles = {}
  /\ revoked = {}
  /\ delivered = [c \in Callbacks |-> <<>>]
  /\ notified = 0
  /\ lastCall = [op |-> "constructor", arg |-> Zero, m |-> Zero]
  /\ InitEditor
  /\ snapEnabled = TRUE
  /\ \E cw \in ContainerWidths :
       LET W == renderDynamic(mountEditor(cw), Zero, <<>>, <<>>) IN
       /\ containerWidth = cw
       /\ state = W.state
       /\ renderer = W.renderer
       /\ staticSurface = W.staticSurface
       /\ dynamicSurface = W.dynamicSurface
       /\ lastPass = W.lastPass
       /\ drawn = W.drawn
  /\ waveform = <<>>
  /\ currentTime = Zero
  /\ mounted = TRUE
  /\ pending = {1}
  /\ animationFrameRef = 1
  /\ dynamicCalls = <<>>
  /\ NoElement
  /\ InitBackingStore

NextSession ==
  \/ ParentSetZoom
  \/ ParentSetDuration
  \/ WindowResize
  \/ handleScroll
  \/ NotesChanged
  \/ BpmChanged
  \/ Tick

SpecSession == InitSession /\ [][NextSession]_vars


----------------------------------------------------------------------------
(* Properties of a session (checked under SpecSession)                     *)

\* the step is a frame: animate() ran from a pending request
IsTick == animationFrameRef' # animationFrameRef /\ bpm' = bpm

\* C23: under a degenerate viewport the user sees a blank timeline: while
\* the duration is 0 (the static render call of the duration change has
\* run), once a frame has also run the dynamic render call, neither canvas
\* shows a grid line, note, playhead or ghost of an earlier frame.
C23_BlankWhenDegenerate ==
  [][(state.durationMs = Zero /\ IsTick) =>
       /\ staticSurface' = <<>>
       /\ dynamicSurface' = {}]_vars


\* C26: after a container resize that changes the viewport width, once all
\* handlers have returned (and the scale is usable), the renderer's canvas
\* width equals max(getTotalWidth(), containerWidth) on the final viewport
\* state, and the static canvas has been redrawn after the last resize of
\* its backing store: it shows a pass and the dirty flag is clear.
C26_ResizeSettles ==
  [][(containerWidth' # containerWidth /\ ~invalidScale(state')) =>
       /\ state'.viewportWidthPx = containerWidth'
       /\ renderer'.cachedWidth =
            MathMax(totalWidthOf(state'), containerWidth')
       /\ ~renderer'.needsStaticRedraw
       /\ staticSurface' # <<>>]_vars


\* C27: whenever the note collection, the bpm or the viewport state has
\* changed, once all resulting handlers and effects have run and
\* pixelsPerMs is positive and finite, the most recent completed static
\* pass was drawn with the current note collection, the current bpm and
\* the current viewport state; the static canvas shows that pass or
\* nothing, never an older note collection, zoom or scroll position.
C27_StaticUpToDate ==
  ~invalidScale(state) =>
    /\ lastPass # <<>>
    /\ lastPass[1].notes = notes
    /\ lastPass[1].bpm = bpm
    /\ lastPass[1].state = state
    /\ lastPass[1].shapes = drawNotes(state, notes)
    /\ staticSurface \in {<<>>, lastPass}

\* after zoom, scroll, tempo and note changes the canvas shows a pass drawn
\* with all of them
C27_Witness ==
  /\ state.zoom = N(2)
  /\ state.viewportStartMs = N(500)
  /\ bpm = N(90)
  /\ notes # <<>>
  /\ staticSurface # <<>>
  /\ staticSurface[1].state = state
  /\ staticSurface[1].bpm = bpm
  /\ staticSurface[1].notes = notes


----------------------------------------------------------------------------
(* Waveform: a parent shares the viewport with a Waveform component        *)

\* Zoom factors, durations (ms) and playback times (s) of the parent
WaveformZooms == {N(1), N(2), N(5)}
WaveformDurations == {N(0), N(1000), N(2000)}
WaveformTimes == {N(0), R(2, 5), R(9, 5)}

\* the paint effect (dependencies audioBuffer, currentTime, viewport): what
\* the canvas holds after it ran; nothing is painted on an invalid scale
waveformPaint(s, old) ==
  IF invalidScale(s) THEN old
  ELSE <<[pixelsPerMs |-> s.pixelsPerMs, totalWidth |-> totalWidthOf(s)]>>

\* the subscription's listener, setViewportVersion(v => v + 1): the
\* component renders again, and the paint effect, none of whose
\* dependencies changed, does not run
waveformListener(s, old) == old

\* a step of the Waveform session: the editor is not part of it
WaveformStep ==
  /\ UNCHANGED <<listeners, handles, revoked, delivered, lastCall>>
  /\ UNCHANGED edVars
  /\ UNCHANGED frVars
  /\ UNCHANGED <<renderer, staticSurface, dynamicSurface, lastPass, drawn,
                 containerWidth>>
  /\ UNCHANGED <<mounted, pending, animationFrameRef, dynamicCalls, exVars>>

\* the parent's zoom effect: viewport.setZoom(zoom / 100)
WaveformSetZoom ==
  \E z \in WaveformZooms :
    LET r == zoomTo(state, z) IN
    /\ state' = r.state
    /\ notified' = IF r.notified THEN 1 ELSE 0
    /\ waveform' = IF r.notified THEN waveformListener(r.state, waveform)
                   ELSE waveform
    /\ UNCHANGED currentTime
    /\ WaveformStep

\* the parent's duration effect: viewport.setDuration(duration * 1000)
WaveformSetDuration ==
  \E d \in WaveformDurations :
    LET r == durationTo(state, d) IN
    /\ state' = r.state
    /\ notified' = IF r.notified THEN 1 ELSE 0
    /\ waveform' = IF r.notified THEN waveformListener(r.state, waveform)
                   ELSE waveform
    /\ UNCHANGED currentTime
    /\ WaveformStep

\* the parent passes another currentTime: the paint effect runs, then the
\* auto-scroll effect calls viewport.autoScrollToTime(currentTime * 1000, 0.3)
WaveformTimeUpdate ==
  \E t \in WaveformTimes \ {currentTime} :
    LET r == autoScrollTo(state, Mul(t, N(1000)), R(3, 10)) IN
    /\ currentTime' = t
    /\ waveform' = waveformPaint(state, waveform)
    /\ state' = r.state
    /\ notified' = IF r.notified THEN 1 ELSE 0
    /\ WaveformStep

\* the Waveform mounted on new TimelineViewport(0, 800): the paint effect
\* returns at the scale safeguard
InitWaveform ==
  /\ state = constructor(N(0), N(800))
  /\ listeners = {"waveform"}
  /\ handles = {}
  /\ revoked = {}
  /\ delivered = [c \in Callbacks |-> <<>>]
  /\ notified = 0
  /\ lastCall = [op |-> "constructor", arg |-> Zero, m |-> Zero]
  /\ InitEditor
  /\ snapEnabled = TRUE
  /\ renderer = rendererRef
  /\ staticSurface = <<>>
  /\ dynamicSurface = {}
  /\ lastPass = <<>>
  /\ drawn = {}
  /\ containerWidth = N(800)
  /\ waveform = waveformPaint(state, <<>>)
  /\ currentTime = Zero
  /\ mounted = FALSE
  /\ pending = {}
  /\ animationFrameRef = 0
  /\ dynamicCalls = <<>>
  /\ NoElement
  /\ InitBackingStore

NextWaveform ==
  \/ WaveformSetZoom
  \/ WaveformSetDuration
  \/ WaveformTimeUpdate

SpecWaveform == InitWaveform /\ [][NextWaveform]_vars

\* C25: after any accepted viewport mutation (for example setZoom), once
\* the subscribers and the resulting effects have run and the scale is
\* usable, the Waveform canvas has been repainted with the current
\* pixelsPerMs, without waiting for a later playback-time change.
C25_WaveformRepainted ==
  [][(notified' = 1 /\ ~invalidScale(state')) =>
       /\ waveform' # <<>>
       /\ waveform'[1].pixelsPerMs = state'.pixelsPerMs]_vars


\* ---------------------------------------------------------------------
\* The mounted editor with its pointer handlers, clicks, playback time,
\* frame loop and teardown (unnamed/part_002), on a timeline that scrolls:
\* 2000 ms at zoom 2 in a 100 px container.
\* ---------------------------------------------------------------------

\* the values of the currentTime prop, in seconds
LoopTimes == {N(0), N(1)}

\* the steps of the session that leave the subscriptions and the
\* bookkeeping of the viewport calls alone
keepSubscribers == UNCHANGED <<listeners, handles, revoked, delivered,
                               notified, lastCall>>

\* the parent passes the emitted collection back as the notes prop: the
\* resize effect runs updateSize() around its re-subscription, then the
\* static render effect runs
notesEffects(ns) ==
  IF ns # notes
  THEN staticRenderEffect(updateSize(World, containerWidth, ns,
                                     listeners \ {"editor"}), ns)
  ELSE World

\* a click on the interaction layer at the pointer's position
LoopClick ==
  /\ mounted
  /\ cursor # <<>>
  /\ onClick(cursor[1], cursor[2])
  /\ Len(notes') <= MaxFrameNotes
  /\ lastEvent' = [kind |-> "click", x |-> cursor[1], y |-> cursor[2],
                   outcome |-> outcomeOf]
  /\ commit(notesEffects(notes'))
  /\ keepSubscribers
  /\ UNCHANGED <<selectedNoteType, bpm, snapEnabled, snapDivision>>
  /\ UNCHANGED <<cursor, ghostNote, containerWidth, waveform, exVars>>
  /\ UNCHANGED lpVars

\* the Clear All button
LoopClearAll ==
  \E confirmed \in BOOLEAN :
    /\ mounted
    /\ Len(notes) = 0 => confirmed
    /\ handleClearAll(confirmed)
    /\ lastEvent' = [kind |-> "clearAll", x |-> 0, y |-> 0,
                     outcome |-> IF Len(notes) = 0 THEN "none"
                                 ELSE IF confirmed THEN "confirmed"
                                 ELSE "declined"]
    /\ commit(notesEffects(notes'))
    /\ keepSubscribers
    /\ UNCHANGED <<selectedNoteType, bpm, snapEnabled, snapDivision>>
    /\ UNCHANGED <<cursor, ghostNote, containerWidth, waveform, exVars>>
    /\ UNCHANGED lpVars

\* pointer positions: lane 0 at 300 ms, and above the lanes
LoopCursorPoints == {<<30, 30>>, <<30, -5>>}

\* the steps that touch neither the viewport nor a canvas nor the frame
\* nor the notes
keepCanvases ==
  /\ emitted' = <<>>
  /\ UNCHANGED <<notes, bpm, snapEnabled, snapDivision, lastEvent>>
  /\ UNCHANGED vpVars
  /\ UNCHANGED ghostNote
  /\ UNCHANGED rnVars
  /\ UNCHANGED lpVars

\* handleCanvasMouseMove of the mounted editor
LoopMouseMove ==
  /\ mounted
  /\ \E p \in LoopCursorPoints : cursor' = p
  /\ keepCanvases
  /\ UNCHANGED <<selectedNoteType, isPlacingHold, holdStartTime,
                 holdStartLane>>

\* handleCanvasMouseLeave of the mounted editor
LoopMouseLeave ==
  /\ mounted
  /\ cursor' = <<>>
  /\ keepCanvases
  /\ UNCHANGED <<selectedNoteType, isPlacingHold, holdStartTime,
                 holdStartLane>>

\* the Tap button of the mounted editor
LoopSelectTap ==
  /\ mounted
  /\ selectedNoteType' = "tap"
  /\ isPlacingHold' = FALSE
  /\ keepCanvases
  /\ UNCHANGED <<cursor, holdStartTime, holdStartLane>>

\* the Hold button of the mounted editor
LoopSelectHold ==
  /\ mounted
  /\ selectedNoteType' = "hold"
  /\ keepCanvases
  /\ UNCHANGED <<cursor, isPlacingHold, holdStartTime, holdStartLane>>

LoopScroll == mounted /\ handleScroll

\* the currentTime prop changes: the ref is synchronised, then the
\* auto-scroll effect calls viewport.autoScrollToTime(currentTime * 1000, 0.3)
TimeUpdate ==
  \E t \in LoopTimes \ {currentTime} :
    LET r == autoScrollTo(state, Mul(t, N(1000)), R(3, 10))
        W == applySetter(World, r, containerWidth, notes, listeners)
    IN
    /\ mounted
    /\ SessionStep(W)
    /\ currentTime' = t
    /\ NoFrame
    /\ UNCHANGED <<notes, bpm, containerWidth>>

\* the snapEnabled prop changes: updateConfig, then the animation loop
\* effect is cleaned up and run again
SnapEnabledChanged ==
  LET W1 == updateConfig(World, [bpm |-> bpm, snapEnabled |-> ~snapEnabled,
                                 snapDivision |-> snapDivision])
      a == animateWith(W1, cancelAnimationFrame(pending, animationFrameRef),
                       currentTime, ghostFor(bpm, ~snapEnabled))
  IN
  /\ mounted
  /\ snapEnabled' = ~snapEnabled
  /\ commit(a.world)
  /\ pending' = a.pending
  /\ animationFrameRef' = a.animationFrameRef
  /\ dynamicCalls' = a.dynamicCalls
  /\ ghostNote' = ghostFor(bpm, ~snapEnabled)
  /\ keepSubscribers
  /\ emitted' = <<>>
  /\ UNCHANGED lastEvent
  /\ UNCHANGED <<notes, selectedNoteType, isPlacingHold, holdStartTime,
                 holdStartLane, bpm, snapDivision>>
  /\ UNCHANGED <<cursor, mounted, waveform, containerWidth, currentTime,
                 exVars>>

\* the editor is unmounted: the cleanups of the renderer effect and of the
\* animation loop effect cancel the frame, the resize effect unsubscribes
Unmount ==
  /\ mounted
  /\ mounted' = FALSE
  /\ pending' = cancelAnimationFrame(
                  cancelAnimationFrame(pending, animationFrameRef),
                  animationFrameRef)
  /\ listeners' = listeners \ {"editor"}
  /\ UNCHANGED <<state, handles, revoked, delivered, notified, lastCall>>
  /\ UNCHANGED edVars
  /\ UNCHANGED frVars
  /\ UNCHANGED rnVars
  /\ UNCHANGED <<currentTime, animationFrameRef, dynamicCalls>>

\* the mounted editor after the parent's effects setDuration(2000) and
\* setZoom(2)
InitLoop ==
  /\ listeners = SessionListeners
  /\ handles = {}
  /\ revoked = {}
  /\ delivered = [c \in Callbacks |-> <<>>]
  /\ notified = 0
  /\ lastCall = [op |-> "constructor", arg |-> Zero, m |-> Zero]
  /\ InitEditor
  /\ snapEnabled = TRUE
  /\ containerWidth = N(100)
  /\ \E W0 \in {renderDynamic(mountEditor(N(100)), Zero, <<>>, <<>>)} :
     \E W1 \in {applySetter(W0, durationTo(W0.state, N(2000)), N(100),
                             <<>>, SessionListeners)} :
     \E W \in {applySetter(W1, zoomTo(W1.state, N(2)), N(100),
                            <<>>, SessionListeners)} :
     /\ state = W.state
     /\ renderer = W.renderer
     /\ staticSurface = W.staticSurface
     /\ dynamicSurface = W.dynamicSurface
     /\ lastPass = W.lastPass
     /\ drawn = W.drawn
  /\ waveform = <<>>
  /\ currentTime = Zero
  /\ mounted = TRUE
  /\ pending = {1}
  /\ animationFrameRef = 1
  /\ dynamicCalls = <<>>
  /\ NoElement
  /\ InitBackingStore

\* the frame loop under pointer, tool, playback and prop events
NextLoop ==
  \/ LoopMouseMove
  \/ LoopMouseLeave
  \/ LoopSelectTap
  \/ LoopSelectHold
  \/ TimeUpdate
  \/ BpmChanged
  \/ SnapEnabledChanged
  \/ Tick
  \/ Unmount

SpecLoop == InitLoop /\ [][NextLoop]_vars

\* the browser runs a requested frame callback unless it is cancelled
SpecLoopLive == SpecLoop /\ WF_vars(Tick)

\* C29: every frame tick calls renderDynamic exactly once, with the latest
\* currentTime (in ms) and with a ghost note that is non-null exactly when a
\* cursor position is recorded and its lane index lies in 0..LANES-1; the
\* ghost is resolved from the last recorded cursor position alone, so after
\* a pointer-leave (cursor cleared) every tick passes a null ghost until a
\* pointer-move records a position again; the pointer handlers themselves
\* call nothing.
C29_TickRendersOnce ==
  [][/\ Tick =>
          /\ Len(dynamicCalls') = 1
          /\ dynamicCalls'[1].currentTimeMs = Mul(currentTime, N(1000))
          /\ (dynamicCalls'[1].ghostNote # <<>>) <=>
               (cursor # <<>> /\ laneOf(cursor[2]) \in 0..(LANES - 1))
          /\ dynamicCalls'[1].ghostNote # <<>> =>
               LET g == dynamicCalls'[1].ghostNote[1]
                   pixelTime == Div(Div(N(cursor[1]), state.pixelsPerMs),
                                    N(1000))
                   snapInterval == Div(Div(N(60), bpm), snapDivision)
               IN  /\ g.lane = laneOf(cursor[2])
                   /\ g.type = selectedNoteType
                   /\ g.time = IF snapEnabled
                               THEN Mul(MathRound(Div(pixelTime,
                                                      snapInterval)),
                                        snapInterval)
                               ELSE pixelTime
     /\ LoopMouseLeave => cursor' = <<>>
     /\ (LoopMouseMove \/ LoopMouseLeave) =>
          UNCHANGED <<dynamicCalls, dynamicSurface, ghostNote>>
     /\ (cursor' # cursor) => (LoopMouseMove \/ LoopMouseLeave)]_vars

\* a frame after the playback time moved to 1 s and the pointer moved
\* above the lanes: renderDynamic(1000, null)
C29_Witness ==
  /\ mounted
  /\ cursor # <<>>
  /\ laneOf(cursor[2]) < 0
  /\ currentTime = N(1)
  /\ dynamicCalls = <<[currentTimeMs |-> N(1000), ghostNote |-> <<>>]>>
  /\ animationFrameRef = 2

\* C24: at most one frame is pending at every moment, restarts of the
\* animation loop effect by bpm or snapEnabled changes included; after the
\* teardown no frame is pending and no step runs animate() again; and an
\* editor that is never torn down runs frame ticks again and again (the
\* browser delivers a frame that stays requested).
C24_OneFramePending ==
  /\ [](Cardinality(pending) <= 1)
  /\ [](~mounted => pending = {})
  /\ [][~mounted => UNCHANGED <<dynamicCalls, dynamicSurface,
                                animationFrameRef>>]_vars
  /\ (<>(~mounted) \/ []<><<Tick>>_vars)

\* a torn-down editor whose loop was restarted before: nothing pending
C24_Witness ==
  /\ ~mounted
  /\ pending = {}
  /\ animationFrameRef = 2
  /\ bpm = N(90)
  /\ ~snapEnabled
  /\ dynamicCalls # <<>>

\* the editing session: pointer, clicks, tools, Clear All, scrolling,
\* playback and frames
NextEditing ==
  \/ LoopMouseMove
  \/ LoopMouseLeave
  \/ LoopClick
  \/ LoopClearAll
  \/ LoopSelectTap
  \/ LoopSelectHold
  \/ LoopScroll
  \/ TimeUpdate
  \/ Tick

SpecEditing == InitLoop /\ [][NextEditing]_vars

\* C30: the notes-change callback is invoked by clicks and by a confirmed
\* Clear All only; pointer-move, pointer-leave, scroll, playback (viewport
\* notification) and frame steps never invoke it, never change the notes or
\* the hold anchor, and the pointer handlers draw on no canvas: the ghost
\* note never enters the note collection.
C30_OnlyClicksChangeNotes ==
  [][/\ emitted' # <<>> =>
          \/ LoopClick
          \/ LoopClearAll /\ lastEvent'.outcome = "confirmed"
     /\ notes' # notes => emitted' = <<notes'>>
     /\ (LoopMouseMove \/ LoopMouseLeave \/ LoopScroll \/ TimeUpdate
           \/ Tick) =>
          /\ emitted' = <<>>
          /\ UNCHANGED <<notes, isPlacingHold, holdStartTime,
                         holdStartLane>>
     /\ (LoopMouseMove \/ LoopMouseLeave) =>
          UNCHANGED <<staticSurface, lastPass, dynamicSurface, renderer>>]_vars

\* a frame drew the ghost of a hold whose anchor is set, over a stored
\* note, and the collection still holds that one note
C30_Witness ==
  /\ isPlacingHold
  /\ ghostNote # <<>>
  /\ ghostNote[1].type = "hold"
  /\ Len(notes) = 1
  /\ emitted = <<>>
  /\ \E sh \in dynamicSurface : sh.kind = "ghost"
  /\ state.viewportStartMs # Zero


----------------------------------------------------------------------------
(* BeatmapEditorElement: the web component hosting the editor              *)

\* the zoom attribute's values, in percent
ElementZooms == {100, 200}

\* pointer positions of clicks on the hosted editor: lane 0 at two times,
\* and above the lanes
ElementClickPoints == {<<30, 30>>, <<40, 30>>, <<30, -5>>}

\* the duration attribute's default, in seconds
ElementDuration == 300

\* exportBeatmap(): JSON.stringify(this._notes), one entry per note
exportBeatmap ==
  [k \in 1..Len(elementNotes[1]) |->
     LET n == elementNotes[1][k] IN <<n.id, n.lane, n.time, n.type>>]

\* connectedCallback: render() sets zoom and duration on the element's
\* viewport (no subscriber yet); React then mounts the editor with the
\* element's _notes as its notes prop
InitElement ==
  /\ listeners = SessionListeners
  /\ handles = {}
  /\ revoked = {}
  /\ delivered = [c \in Callbacks |-> <<>>]
  /\ notified = 0
  /\ lastCall = [op |-> "constructor", arg |-> Zero, m |-> Zero]
  /\ InitEditor
  /\ snapEnabled = TRUE
  /\ containerWidth = N(100)
  /\ elementNotes = <<notes>>
  /\ InitBackingStore
  /\ \E s0 \in {zoomTo(constructor(N(0), N(800)), N(1)).state} :
     \E s1 \in {durationTo(s0, N(ElementDuration * 1000)).state} :
     \E W \in {renderDynamic(mountEditorOn(s1, N(100)), Zero, <<>>, <<>>)} :
     /\ state = W.state
     /\ renderer = W.renderer
     /\ staticSurface = W.staticSurface
     /\ dynamicSurface = W.dynamicSurface
     /\ lastPass = W.lastPass
     /\ drawn = W.drawn
  /\ waveform = <<>>
  /\ currentTime = Zero
  /\ mounted = TRUE
  /\ pending = {1}
  /\ animationFrameRef = 1
  /\ dynamicCalls = <<>>

\* a click on the interaction layer of the hosted editor: the element's
\* onNotesChange stores the collection and dispatches noteschange (emitted'
\* is the event's detail); no prop of the editor changes, so no effect runs
ElementClick ==
  \E p \in ElementClickPoints :
    /\ mounted
    /\ elementNotes # <<>>
    /\ onClick(p[1], p[2])
    /\ emitted' # <<>> => Len(emitted'[1]) <= MaxNotes
    /\ elementNotes' = IF emitted' = <<>> THEN elementNotes ELSE emitted'
    /\ lastEvent' = [kind |-> "click", x |-> p[1], y |-> p[2],
                     outcome |-> IF emitted' = <<>> THEN outcomeOf
                                 ELSE IF Len(emitted'[1]) > Len(notes)
                                 THEN emitted'[1][Len(emitted'[1])].type
                                 ELSE "deleted"]
    /\ commit(World)
    /\ keepSubscribers
    /\ UNCHANGED <<selectedNoteType, bpm, snapEnabled, snapDivision>>
    /\ UNCHANGED <<cursor, ghostNote, containerWidth, waveform, canvases,
                   devicePixelRatio>>
    /\ UNCHANGED lpVars

\* setAttribute('zoom', z) with a new value: attributeChangedCallback calls
\* render(), which sets zoom and duration on the viewport (the editor's
\* subscriber still holds the notes of the previous render) and renders the
\* editor with _notes as its notes prop; a changed notes prop runs the
\* resize effect and the static render effect
ElementAttributeChanged ==
  \E z \in ElementZooms :
    /\ mounted
    /\ elementNotes # <<>>
    /\ Div(N(z), N(100)) # state.zoom
    /\ \E ns \in {elementNotes[1]} :
       \E W1 \in {applySetter(World, zoomTo(state, Div(N(z), N(100))),
                               containerWidth, notes, listeners)} :
       \E W2 \in {applySetter(W1, durationTo(W1.state,
                                              N(ElementDuration * 1000)),
                               containerWidth, notes, listeners)} :
       \E W3 \in {IF ns # notes
                  THEN staticRenderEffect(
                         updateSize(W2, containerWidth, ns,
                                    listeners \ {"editor"}), ns)
                  ELSE W2} :
         /\ commit(W3)
         /\ notes' = ns
    /\ emitted' = <<>>
    /\ lastEvent' = [kind |-> "attribute", x |-> z, y |-> 0,
                     outcome |-> "none"]
    /\ keepSubscribers
    /\ UNCHANGED <<selectedNoteType, isPlacingHold, holdStartTime,
                   holdStartLane, bpm, snapEnabled, snapDivision>>
    /\ UNCHANGED <<cursor, ghostNote, containerWidth, waveform, exVars>>
    /\ UNCHANGED lpVars

\* the hosted editor under clicks, tool buttons and attribute changes
NextElement ==
  \/ ElementClick
  \/ ElementAttributeChanged
  \/ LoopSelectTap
  \/ LoopSelectHold

SpecElement == InitElement /\ [][NextElement]_vars

\* C31: a Tap placement through the web component loses no note: the
\* detail of its noteschange event, which exportBeatmap() then serialises,
\* holds every note the element held before the click and the new note.
C31_PlacementsAccumulate ==
  [][(ElementClick /\ lastEvent'.outcome = "tap") =>
       /\ Len(emitted'[1]) = Len(elementNotes[1]) + 1
       /\ \A k \in 1..Len(elementNotes[1]) :
            emitted'[1][k] = elementNotes[1][k]
       /\ Len(exportBeatmap') = Len(elementNotes[1]) + 1]_vars


\* C32: after the editor is torn down the viewport holds none of its
\* subscribers: the renderer's registration and the editor's are both
\* revoked.
C32_TeardownRevokesAll ==
  ~mounted => listeners \cap SessionListeners = {}


\* C40: when snapEnabled changes, the effects it triggers leave the static
\* surface redrawn with the new snap configuration: the dirty flag is clear
\* once they have run, with no later note, bpm, scroll or viewport change.
C40_SnapChangeRedraws ==
  [][snapEnabled' # snapEnabled =>
       /\ ~renderer'.needsStaticRedraw
       /\ renderer'.config.snapEnabled = snapEnabled']_vars


----------------------------------------------------------------------------
(* autoScrollToTime called twice (checked under SpecAutoScroll)            *)

\* playback times (ms) before, at the edges of, inside and beyond the
\* timeline, and the NaN of an unset time; margin ratios of [0, 0.5] and one
\* above
ScrollTimes == {N(-100), N(0), N(400), N(1800), N(5000), NaN}
ScrollMargins == {N(0), R(3, 10), R(1, 2), R(7, 10)}

\* autoScrollToTime(timeMs, marginRatio) as the waveform's and the editor's
\* auto-scroll effects call it, over a wider range of arguments
autoScrollAny ==
  \E t \in ScrollTimes, m \in ScrollMargins :
    autoScrollToTimeBody(t, m) /\ Called("autoScrollToTime", t, m)

NextAutoScroll ==
  \/ setZoom
  \/ setViewportStart
  \/ setViewportWidth
  \/ setDuration
  \/ autoScrollAny

SpecAutoScroll == InitViewport /\ [][NextAutoScroll]_vars

\* C38: autoScrollToTime is idempotent for margin ratios in [0, 0.5]: from
\* every state with pixelsPerMs > 0 and for every timeMs, a second call with
\* the same arguments right after the first changes no state and notifies
\* no subscriber (the steps whose call is autoScrollToTime are the steps of
\* autoScrollAny).
C38_AutoScrollIdempotent ==
  [][(/\ lastCall'.op = "autoScrollToTime"
      /\ Gt(state.pixelsPerMs, Zero)
      /\ Le(Zero, lastCall'.m)
      /\ Le(lastCall'.m, R(1, 2))) =>
       autoScrollTo(state', lastCall'.arg, lastCall'.m)
         = [state |-> state', notified |-> FALSE]]_vars

\* a first call scrolled the viewport and notified; the time was beyond the
\* right margin
C38_Witness ==
  /\ lastCall.op = "autoScrollToTime"
  /\ lastCall.m = R(1, 2)
  /\ notified > 0
  /\ Gt(state.pixelsPerMs, Zero)
  /\ Gt(state.viewportStartMs, Zero)
  /\ StrictEq(state.viewportStartMs,
              Sub(lastCall.arg,
                  Mul(Div(state.viewportWidthPx, state.pixelsPerMs),
                      R(1, 2))))


\* C39: preview and commit agree. Whenever animate() runs (a frame, or the
\* restart of the loop by a bpm or snapEnabled change), the ghost note it
\* passes to renderDynamic has the lane and the time that handleCanvasClick
\* computes for a click at the pointer's position under the props and the
\* viewport of that moment, and there is no ghost exactly where the click
\* handler returns without placing.
C39_PreviewMatchesCommit ==
  [][(animationFrameRef' # animationFrameRef /\ cursor' # <<>>) =>
       LET ghost == dynamicCalls'[1].ghostNote
           laneIndex == laneOf(cursor'[2])
           clickTime == (snapToGrid(edPixelToTime(N(cursor[1]))))'
       IN  /\ (ghost = <<>>) <=> outsideLanes(laneIndex)
           /\ ghost # <<>> =>
                /\ ghost[1].lane = laneIndex
                /\ ghost[1].time = clickTime
                /\ ghost[1].type = selectedNoteType']_vars

\* the loop restarted by a bpm change drew the ghost on the grid of the new
\* bpm: 300 ms snaps to 1/3 s at 90 bpm (to 1/4 s at 120 bpm)
C39_Witness ==
  /\ mounted
  /\ bpm = N(90)
  /\ snapEnabled
  /\ cursor = <<30, 30>>
  /\ dynamicCalls # <<>>
  /\ dynamicCalls[1].ghostNote # <<>>
  /\ dynamicCalls[1].ghostNote[1].time = R(1, 3)


----------------------------------------------------------------------------
(* Notifications re-entered by the editor's subscriber                     *)
(* (checked under SpecReentrant)                                           *)

\* the viewport's listener Set in insertion order: a client callback
\* subscribed before the editor mounted, the renderer's and the editor's
\* callbacks, a client callback subscribed afterwards
ReentrantOrder == <<"f", "renderer", "editor", "g">>

ReentrantCallbacks == {ReentrantOrder[k] : k \in 1..Len(ReentrantOrder)}

RECURSIVE notifyGuarded(_, _, _, _)

\* a notify() that drops the notification of a setter called from inside a
\* listener
notifyGuarded(r, k, cw, ls) ==
  IF k > Len(ReentrantOrder) THEN r
  ELSE LET c == ReentrantOrder[k] IN
       IF c \notin ls THEN notifyGuarded(r, k + 1, cw, ls)
       ELSE CHOOSE out \in
              {notifyGuarded(r2, k + 1, cw, ls) :
                 r2 \in {IF c = "editor"
                         THEN [r1 EXCEPT !.state = widthTo(r1.state, cw).state]
                         ELSE r1 :
                         r1 \in {[r EXCEPT !.delivered[c] =
                                     Append(@, getState(r.state))]}}} : TRUE

RECURSIVE notifyFrom(_, _, _, _)

\* notify(): listeners.forEach(listener => listener(this.getState())), from
\* position k of the iteration; r holds the viewport's state, the snapshots
\* delivered so far and the number of notify() runs. The editor's listener
\* runs updateSize(), whose setViewportWidth(container.offsetWidth) runs
\* notify() again, from the first listener, when the width differs
notifyFrom(r, k, cw, ls) ==
  IF k > Len(ReentrantOrder) THEN r
  ELSE LET c == ReentrantOrder[k] IN
       IF c \notin ls THEN notifyFrom(r, k + 1, cw, ls)
       ELSE CHOOSE out \in
              {notifyFrom(r2, k + 1, cw, ls) :
                 r2 \in {IF c = "editor" /\ widthTo(r1.state, cw).notified
                         THEN notifyFrom(
                                [r1 EXCEPT
                                   !.state = widthTo(r1.state, cw).state,
                                   !.notified = @ + 1], 1, cw, ls)
                         ELSE r1 :
                         r1 \in {[r EXCEPT !.delivered[c] =
                                     Append(@, getState(r.state))]}}} : TRUE

\* a public setter with result r called while the container is cw wide: W
\* is the session after the listeners ran; delivered' holds, per listener,
\* the snapshots the call delivered (kept when the call changed nothing)
ReentrantCall(W, r, cw) ==
  /\ commit(W)
  /\ IF r.notified
     THEN \E out \in {notifyFrom(
                        [state |-> r.state,
                         delivered |-> [c \in ReentrantCallbacks |-> <<>>],
                         notified |-> 1], 1, cw, listeners)} :
            /\ delivered' = out.delivered
            /\ notified' = out.notified
     ELSE UNCHANGED <<delivered, notified>>
  /\ emitted' = <<>>
  /\ UNCHANGED <<listeners, handles, revoked, lastEvent>>
  /\ UNCHANGED <<notes, selectedNoteType, isPlacingHold, holdStartTime,
                 holdStartLane, bpm, snapEnabled, snapDivision>>
  /\ UNCHANGED <<cursor, ghostNote, waveform, exVars>>
  /\ UNCHANGED lpVars

\* the parent's zoom effect: viewport.setZoom(zoom / 100)
ReentrantSetZoom ==
  \E z \in SessionZooms :
    \E r \in {zoomTo(state, z)} :
      /\ ReentrantCall(applySetter(World, r, containerWidth, notes,
                                   listeners), r, containerWidth)
      /\ lastCall' = [op |-> "setZoom", arg |-> z, m |-> Zero]
      /\ UNCHANGED containerWidth

\* the parent's duration effect: viewport.setDuration(duration * 1000)
ReentrantSetDuration ==
  \E d \in {N(1000), N(2000)} :
    \E r \in {durationTo(state, d)} :
      /\ ReentrantCall(applySetter(World, r, containerWidth, notes,
                                   listeners), r, containerWidth)
      /\ lastCall' = [op |-> "setDuration", arg |-> d, m |-> Zero]
      /\ UNCHANGED containerWidth

\* the window's resize event with the container resized to cw: updateSize()
\* calls setViewportWidth(container.offsetWidth)
ReentrantWindowResize ==
  \E cw \in ContainerWidths :
    \E r \in {widthTo(state, cw)} :
      /\ ReentrantCall(updateSize(World, cw, notes, listeners), r, cw)
      /\ lastCall' = [op |-> "setViewportWidth", arg |-> cw, m |-> Zero]
      /\ containerWidth' = cw

\* the layout resizes the scroll container without a window resize event:
\* no handler runs
ContainerLayout ==
  \E cw \in ContainerWidths \ {containerWidth} :
    /\ containerWidth' = cw
    /\ emitted' = <<>>
    /\ UNCHANGED <<state, listeners, handles, revoked, delivered, notified,
                   lastCall, lastEvent>>
    /\ UNCHANGED <<notes, selectedNoteType, isPlacingHold, holdStartTime,
                   holdStartLane, bpm, snapEnabled, snapDivision>>
    /\ UNCHANGED <<cursor, ghostNote, waveform, exVars>>
    /\ UNCHANGED <<renderer, staticSurface, dynamicSurface, lastPass, drawn>>
    /\ UNCHANGED lpVars

\* a client subscribes its callback after the editor's
SubscribeLate ==
  /\ "g" \notin listeners
  /\ listeners' = listeners \cup {"g"}
  /\ delivered' = [delivered EXCEPT !["g"] = <<>>]
  /\ UNCHANGED <<state, handles, revoked, notified, lastCall>>
  /\ UNCHANGED edVars
  /\ UNCHANGED frVars
  /\ UNCHANGED rnVars
  /\ UNCHANGED lpVars

\* a client callback is unsubscribed
UnsubscribeClient ==
  \E c \in listeners \ SessionListeners :
    /\ listeners' = listeners \ {c}
    /\ UNCHANGED <<state, handles, revoked, delivered, notified, lastCall>>
    /\ UNCHANGED edVars
    /\ UNCHANGED frVars
    /\ UNCHANGED rnVars
    /\ UNCHANGED lpVars

\* the mounted editor of InitLoop on a viewport a client subscribed to
\* before the mount
InitReentrant ==
  /\ listeners = {"f"} \cup SessionListeners
  /\ handles = {}
  /\ revoked = {}
  /\ delivered = [c \in ReentrantCallbacks |-> <<>>]
  /\ notified = 0
  /\ lastCall = [op |-> "constructor", arg |-> Zero, m |-> Zero]
  /\ InitEditor
  /\ snapEnabled = TRUE
  /\ containerWidth = N(100)
  /\ NoElement
  /\ InitBackingStore
  /\ \E W0 \in {renderDynamic(mountEditor(N(100)), Zero, <<>>, <<>>)} :
     \E W1 \in {applySetter(W0, durationTo(W0.state, N(2000)), N(100),
                             <<>>, SessionListeners)} :
     \E W \in {applySetter(W1, zoomTo(W1.state, N(2)), N(100),
                            <<>>, SessionListeners)} :
     /\ state = W.state
     /\ renderer = W.renderer
     /\ staticSurface = W.staticSurface
     /\ dynamicSurface = W.dynamicSurface
     /\ lastPass = W.lastPass
     /\ drawn = W.drawn
  /\ waveform = <<>>
  /\ currentTime = Zero
  /\ mounted = TRUE
  /\ pending = {1}
  /\ animationFrameRef = 1
  /\ dynamicCalls = <<>>

NextReentrant ==
  \/ ReentrantSetZoom
  \/ ReentrantSetDuration
  \/ ReentrantWindowResize
  \/ ContainerLayout
  \/ SubscribeLate
  \/ UnsubscribeClient

SpecReentrant == InitReentrant /\ [][NextReentrant]_vars

\* C37: after every public setter returns, calls re-entered by the editor's
\* subscriber included, the last snapshot delivered to each subscriber
\* still registered equals the viewport's current state; a call that
\* notifies reaches every subscriber, and the nested notifications end
\* after at most two runs of notify().
C37_LastSnapshotCurrent ==
  /\ \A c \in listeners :
       delivered[c] # <<>> => delivered[c][Len(delivered[c])] = state
  /\ notified <= 2
  /\ \A c \in listeners :
       Len(delivered[c]) <= 2

\* the editor's subscriber re-entered the viewport during a setZoom: two
\* runs of notify(), two snapshots for the client callback subscribed last,
\* the first one already taken after the nested width change
C37_Witness ==
  /\ lastCall.op = "setZoom"
  /\ notified = 2
  /\ "g" \in listeners
  /\ Len(delivered["g"]) = 2
  /\ Len(delivered["f"]) = 2
  /\ delivered["f"][1] # delivered["f"][2]
  /\ delivered["g"][1] = state
  /\ state.viewportWidthPx = N(80)


\* C34: the hit region used for deletion coincides horizontally with the
\* drawn note: for every note of the static pass on screen, a Tap's hit
\* circle is centred on the x at which drawNotes draws it and a Hold's hit
\* rectangle spans the x-range of its drawn rectangle, under every snap
\* configuration.
C34_HitRegionOnDrawnNote ==
  (/\ lastPass # <<>>
   /\ lastPass[1].state = state
   /\ lastPass[1].notes = notes
   /\ lastPass[1].bpm = bpm) =>
    \A k \in 1..Len(lastPass[1].shapes) :
      LET note == lastPass[1].shapes[k] IN
      /\ edTimeToPixel(note.time) = drawnX(note)
      /\ note.type = "hold" =>
           edTimeToPixel(Add(note.time, OrZero(note.duration)))
             = Add(drawnX(note),
                   rendererTimeToPixel(Mul(note.duration, N(1000))))


----------------------------------------------------------------------------
(* TimelineRenderer.updateCanvasSize and the canvases' backing stores      *)
(* (checked under SpecCanvas)                                              *)

\* sizes the editor's updateSize passes (Math.max(totalWidth, offsetWidth)
\* by LANES * LANE_HEIGHT), an empty size, and device pixel ratios
BackingWidths == {N(0), N(100), N(101), N(200)}
BackingHeights == {N(0), N(300)}
PixelRatios == {N(1), R(3, 2), N(2)}

\* the largest value canvas.width and canvas.height hold
CANVAS_MAX == 2147483647

\* canvas.width = v, canvas.height = v: the number is converted to an
\* unsigned long (NaN and the infinities give 0, the fraction is dropped);
\* a value out of range gives the attribute's default
canvasDimension(v, default) ==
  IF ~isFinite(v) THEN 0
  ELSE LET t == IF Lt(v, Zero) THEN -((-v[1]) \div v[2]) ELSE v[1] \div v[2]
       IN  IF t >= 0 /\ t <= CANVAS_MAX THEN t ELSE default

\* window.devicePixelRatio || 1
dprOf(ratio) == IF IsNaN(ratio) \/ ratio = Zero THEN N(1) ELSE ratio

\* a canvas resized without scale(dpr, dpr) on its fresh context
resizeCanvasUnscaled(width, height, dpr) ==
  [width |-> canvasDimension(Mul(width, dpr), CANVAS_DEFAULT_WIDTH),
   height |-> canvasDimension(Mul(height, dpr), CANVAS_DEFAULT_HEIGHT),
   scale |-> N(1)]

\* canvas.width = width * dpr; canvas.height = height * dpr (each resets
\* the context's transform to the identity); getContext('2d').scale(dpr, dpr)
resizeCanvas(width, height, dpr) ==
  [width |-> canvasDimension(Mul(width, dpr), CANVAS_DEFAULT_WIDTH),
   height |-> canvasDimension(Mul(height, dpr), CANVAS_DEFAULT_HEIGHT),
   scale |-> Mul(N(1), dpr)]

\* what updateCanvasSize(width, height) does to the two canvases
canvasesAfter(r, cv, ratio, width, height) ==
  IF StrictEq(r.cachedWidth, width) /\ StrictEq(r.cachedHeight, height)
  THEN cv
  ELSE [static |-> resizeCanvas(width, height, dprOf(ratio)),
        dynamic |-> resizeCanvas(width, height, dprOf(ratio))]

\* renderer.updateCanvasSize(width, height)
CanvasResize ==
  \E width \in BackingWidths, height \in BackingHeights :
    /\ commit(updateCanvasSize(World, width, height))
    /\ canvases' = canvasesAfter(renderer, canvases, devicePixelRatio,
                                 width, height)
    /\ lastCall' = [op |-> "updateCanvasSize", arg |-> width, m |-> height]
    /\ UNCHANGED <<listeners, handles, revoked, delivered, notified>>
    /\ UNCHANGED <<containerWidth, waveform, elementNotes, devicePixelRatio>>
    /\ UNCHANGED edVars
    /\ UNCHANGED frVars
    /\ UNCHANGED lpVars

\* the window moves to a screen of another pixel density, or the page is
\* zoomed: no code of the renderer runs
PixelRatioChanged ==
  \E ratio \in PixelRatios \ {devicePixelRatio} :
    /\ devicePixelRatio' = ratio
    /\ lastCall' = [op |-> "devicePixelRatio", arg |-> ratio, m |-> Zero]
    /\ UNCHANGED <<state, listeners, handles, revoked, delivered, notified>>
    /\ UNCHANGED <<renderer, staticSurface, dynamicSurface, lastPass, drawn,
                   containerWidth, waveform, elementNotes, canvases>>
    /\ UNCHANGED edVars
    /\ UNCHANGED frVars
    /\ UNCHANGED lpVars

NextCanvas ==
  \/ CanvasResize
  \/ PixelRatioChanged

SpecCanvas == InitRenderer /\ [][NextCanvas]_vars

\* C33 as stated: after any sequence of updateCanvasSize calls each
\* surface's backing store is cachedWidth * devicePixelRatio by
\* cachedHeight * devicePixelRatio and its scale transform is
\* devicePixelRatio.
C33_BackingStoreAsStated ==
  lastCall.op = "updateCanvasSize" =>
    \A c \in {canvases.static, canvases.dynamic} :
      /\ N(c.width) = Mul(renderer.cachedWidth, devicePixelRatio)
      /\ N(c.height) = Mul(renderer.cachedHeight, devicePixelRatio)
      /\ c.scale = devicePixelRatio

\* C33: an updateCanvasSize call that changes the cached size leaves each
\* surface with a backing store of cachedWidth * dpr by cachedHeight * dpr
\* truncated to whole pixels and a scale transform of exactly dpr (applied
\* once to the transform the resize reset), dpr being the device pixel
\* ratio at that call; a call with unchanged width and height changes
\* neither the renderer nor a canvas.
C33_BackingStore ==
  [][lastCall'.op = "updateCanvasSize" =>
       IF /\ StrictEq(renderer.cachedWidth, lastCall'.arg)
          /\ StrictEq(renderer.cachedHeight, lastCall'.m)
       THEN UNCHANGED <<canvases, renderer, staticSurface, dynamicSurface>>
       ELSE /\ renderer'.cachedWidth = lastCall'.arg
            /\ renderer'.cachedHeight = lastCall'.m
            /\ renderer'.needsStaticRedraw
            /\ \A c \in {canvases'.static, canvases'.dynamic} :
                 /\ N(c.width) = MathFloor(Mul(renderer'.cachedWidth,
                                               devicePixelRatio))
                 /\ N(c.height) = MathFloor(Mul(renderer'.cachedHeight,
                                                devicePixelRatio))
                 /\ c.scale = devicePixelRatio]_vars

\* a 101 x 300 canvas resized at device pixel ratio 3/2: 151 x 450 pixels
\* (151.5 truncated) under a scale of 3/2
C33_Witness ==
  /\ lastCall.op = "updateCanvasSize"
  /\ renderer.cachedWidth = N(101)
  /\ devicePixelRatio = R(3, 2)
  /\ canvases.static = [width |-> 151, height |-> 450, scale |-> R(3, 2)]
  /\ canvases.dynamic = canvases.static

----------------------------------------------------------------------------
(* IEEE-754 binary64 arithmetic of the grid loop                           *)
(*                                                                         *)
(* drawBeatGrid accumulates currentTimeMs += intervalMs in doubles, so the *)
(* number of lines it draws depends on the rounding of every sum.  A       *)
(* double is the record [m, e] of value m * 2^e; m is a natural number of  *)
(* at most 53 bits, held as a little-endian sequence of base-2^15 digits   *)
(* (<<>> is zero).  Only finite, non-negative doubles occur in the loop.   *)

LIMB == 2^15

RECURSIVE bnFromInt(_)
bnFromInt(n) == IF n = 0 THEN <<>> ELSE <<n % LIMB>> \o bnFromInt(n \div LIMB)

bnDigit(a, i) == IF i <= Len(a) THEN a[i] ELSE 0

RECURSIVE bnAddFrom(_, _, _, _)
bnAddFrom(a, b, i, c) ==
  IF i > Len(a) /\ i > Len(b)
  THEN bnFromInt(c)
  ELSE CHOOSE r \in {<<s % LIMB>> \o bnAddFrom(a, b, i + 1, s \div LIMB) :
                       s \in {bnDigit(a, i) + bnDigit(b, i) + c}} : TRUE

bnAdd(a, b) == bnAddFrom(a, b, 1, 0)

RECURSIVE bnMulFrom(_, _, _, _)
bnMulFrom(a, k, i, c) ==
  IF i > Len(a)
  THEN bnFromInt(c)
  ELSE CHOOSE r \in {<<s % LIMB>> \o bnMulFrom(a, k, i + 1, s \div LIMB) :
                       s \in {a[i] * k + c}} : TRUE

\* a * k for 0 < k < 2^15
bnMulSmall(a, k) == bnMulFrom(a, k, 1, 0)

RECURSIVE bnNorm(_)
bnNorm(a) ==
  IF a = <<>> THEN a
  ELSE IF a[Len(a)] = 0 THEN bnNorm(SubSeq(a, 1, Len(a) - 1)) ELSE a

\* long division of the digits i..1 of a by 0 < d < 2^15, r carried in
RECURSIVE bnDivFrom(_, _, _, _)
bnDivFrom(a, d, i, r) ==
  IF i = 0
  THEN [q |-> <<>>, r |-> r]
  ELSE CHOOSE res \in
         {[q |-> Append(rest.q, (r * LIMB + a[i]) \div d), r |-> rest.r] :
            rest \in {bnDivFrom(a, d, i - 1, (r * LIMB + a[i]) % d)}} : TRUE

bnDivSmall(a, d) ==
  CHOOSE res \in {[q |-> bnNorm(x.q), r |-> x.r] :
                    x \in {bnDivFrom(a, d, Len(a), 0)}} : TRUE

bnHalf(a) == bnDivSmall(a, 2).q

bnOdd(a) == a # <<>> /\ a[1] % 2 = 1

RECURSIVE bnShiftLeft(_, _)
bnShiftLeft(a, k) ==
  IF k = 0 THEN a
  ELSE CHOOSE r \in {bnShiftLeft(b, k - 1) : b \in {bnMulSmall(a, 2)}} : TRUE

bnBitLen(a) ==
  IF a = <<>> THEN 0
  ELSE 15 * (Len(a) - 1)
         + (CHOOSE k \in 1..15 :
              2^(k - 1) <= a[Len(a)] /\ a[Len(a)] < 2^k)

RECURSIVE bnLeFrom(_, _, _)
bnLeFrom(a, b, i) ==
  IF i = 0 THEN TRUE
  ELSE IF a[i] # b[i] THEN a[i] < b[i]
  ELSE bnLeFrom(a, b, i - 1)

bnLe(a, b) ==
  IF Len(a) # Len(b) THEN Len(a) < Len(b) ELSE bnLeFrom(a, b, Len(a))

\* round m * 2^e to 53 significant bits, to nearest and ties to even;
\* sticky says that bits below m were already cut off
RECURSIVE fRound(_, _, _)
fRound(m, e, sticky) ==
  IF bnBitLen(m) <= 53
  THEN [m |-> m, e |-> e]
  ELSE IF bnBitLen(m) > 54 + 15
  THEN fRound(Tail(m), e + 15, sticky \/ m[1] # 0)
  ELSE IF bnBitLen(m) > 54
  THEN CHOOSE r \in {fRound(h, e + 1, sticky \/ bnOdd(m)) :
                       h \in {bnHalf(m)}} : TRUE
  ELSE CHOOSE r \in
         {[m |-> IF bnOdd(m) /\ (sticky \/ bnOdd(h))
                 THEN bnAdd(h, <<1>>) ELSE h,
           e |-> e + 1] : h \in {bnHalf(m)}} : TRUE

\* the double of a natural number below 2^31
fFromInt(n) == [m |-> bnFromInt(n), e |-> 0]

\* x / d in doubles, for a natural number 0 < d < 2^15: the quotient is
\* taken with enough extra digits to hold 54 bits, the remainder is the
\* sticky bit
fDivInt(x, d) ==
  CHOOSE r \in
    {fRound(y.q, x.e - 15 * extra, y.r # 0) :
       extra \in {5 - (bnBitLen(x.m) \div 15)},
       y \in {bnDivSmall([i \in 1..(5 - (bnBitLen(x.m) \div 15)) |-> 0]
                          \o x.m, d)}} : TRUE

\* x * k in doubles, for a natural number 0 < k < 2^15
fMulInt(x, k) ==
  CHOOSE r \in {fRound(p, x.e, FALSE) : p \in {bnMulSmall(x.m, k)}} : TRUE

fMinExp(x, y) == IF x.e < y.e THEN x.e ELSE y.e

\* x + y in doubles
fAdd(x, y) ==
  CHOOSE r \in
    {fRound(s, fMinExp(x, y), FALSE) :
       s \in {bnAdd(bnShiftLeft(x.m, x.e - fMinExp(x, y)),
                    bnShiftLeft(y.m, y.e - fMinExp(x, y)))}} : TRUE

\* x <= y in doubles
fLe(x, y) ==
  bnLe(bnShiftLeft(x.m, x.e - fMinExp(x, y)),
       bnShiftLeft(y.m, y.e - fMinExp(x, y)))

\* the number of iterations of
\*   let currentTimeMs = 0
\*   while (currentTimeMs <= durationMs) { ...; currentTimeMs += intervalMs }
RECURSIVE gridLoopFrom(_, _, _, _)
gridLoopFrom(t, intervalMs, durationMs, n) ==
  IF ~fLe(t, durationMs) THEN n
  ELSE CHOOSE r \in {gridLoopFrom(t2, intervalMs, durationMs, n + 1) :
                       t2 \in {fAdd(t, intervalMs)}} : TRUE

gridLoopCount(intervalMs, durationMs) ==
  gridLoopFrom(fFromInt(0), intervalMs, durationMs, 0)

fEq(x, y) == fLe(x, y) /\ fLe(y, x)

\* the double of a non-negative JS number n/d of the model
toDouble(a) == fDivInt(fFromInt(a[1]), a[2])

----------------------------------------------------------------------------
(* The beat grid of a static pass (TimelineRenderer.drawBeatGrid)          *)

\* const beatDurationMs = (60 / bpm) * 1000, as a double and as the exact
\* number; bpm is a positive integer in every configuration of the model
beatDurationMsDouble(config) ==
  fMulInt(fDivInt(fFromInt(60), config.bpm[1]), 1000)

beatDurationMs(config) == Mul(Div(N(60), config.bpm), N(1000))

\* renderStatic passes state.durationMs / 1000 and drawBeatGrid takes
\* const durationMs = duration * 1000
gridDurationMsDouble(s) == fMulInt(fDivInt(toDouble(s.durationMs), 1000), 1000)

\* drawGridLevel(intervalMs, style): one line per iteration of the loop.
\* The loop runs on doubles (count); the time of the k-th line is written
\* as the exact k * intervalMs, which the accumulated sum equals up to its
\* rounding error (below 2^-30 ms here, so that no beatIndex and no
\* measure test of the inputs depends on it).
drawGridLevel(tier, intervalMs, beatMs, count) ==
  [k \in 1..count |->
     CHOOSE line \in
       {[tier |-> tier,
         timeMs |-> t,
         measure |-> /\ beatIndex[1] % 4 = 0
                     /\ Lt(MathAbs(Sub(t, Mul(beatIndex, beatMs))), N(1))] :
          t \in {Mul(N(k - 1), intervalMs)},
          beatIndex \in {MathRound(Div(Mul(N(k - 1), intervalMs), beatMs))}} :
       TRUE]

\* drawBeatGrid(ctx, bpm, duration): the lines of the three levels in the
\* order they are stroked
gridLevels(s, config) ==
  IF StrictEq(config.bpm, Zero) \/ StrictEq(Div(s.durationMs, N(1000)), Zero)
  THEN <<>>
  ELSE
    CHOOSE lines \in
      {drawGridLevel("beat", beatMs, beatMs, gridLoopCount(beatF, durF))
       \o (IF Gt(config.snapDivision, N(1)) /\ ~fEq(fDivInt(beatF, 4), beatF)
           THEN drawGridLevel("quarter", Div(beatMs, N(4)), beatMs,
                              gridLoopCount(fDivInt(beatF, 4), durF))
           ELSE <<>>)
       \o (IF /\ config.snapEnabled
              /\ Gt(config.snapDivision, N(4))
              /\ ~fEq(fDivInt(beatF, config.snapDivision[1]), beatF)
              /\ ~fEq(fDivInt(beatF, config.snapDivision[1]),
                      fDivInt(beatF, 4))
           THEN drawGridLevel("snap", Div(beatMs, config.snapDivision), beatMs,
                              gridLoopCount(
                                fDivInt(beatF, config.snapDivision[1]), durF))
           ELSE <<>>) :
         beatMs \in {beatDurationMs(config)},
         beatF \in {beatDurationMsDouble(config)},
         durF \in {gridDurationMsDouble(s)}} : TRUE

GridBpms == {N(90), N(120), N(210)}
GridDivisions == {N(1), N(2), N(3), N(4), N(8)}
GridDurations == {N(1000), N(2000)}

GridConfigs ==
  {[bpm |-> b, snapEnabled |-> e, snapDivision |-> d] :
     b \in GridBpms, e \in BOOLEAN, d \in GridDivisions}

\* the component's config effect: renderer.updateConfig({bpm, snapEnabled,
\* snapDivision})
GridUpdateConfig ==
  \E c \in GridConfigs :
    /\ RendererCall("updateConfig", updateConfig(World, c))
    /\ notified' = 0

GridRenderStatic ==
  /\ RendererCall("renderStatic", renderStatic(World, notes))
  /\ notified' = 0

\* viewport.setDuration by the client; an accepted one reaches the
\* renderer's listener through notify()
GridSetDuration ==
  \E r \in {durationTo(state, d) : d \in GridDurations} :
    /\ RendererCall("viewport",
                    IF r.notified
                    THEN onViewportChange([World EXCEPT !.state = r.state])
                    ELSE World)
    /\ notified' = IF r.notified THEN 1 ELSE 0

NextGrid ==
  \/ GridUpdateConfig
  \/ GridRenderStatic
  \/ GridSetDuration

SpecGrid == InitRenderer /\ [][NextGrid]_vars

\* the static surface shows the grid of the current state and config: a
\* pass has drawn it and nothing has invalidated it since
gridIsCurrent ==
  /\ lastPass # <<>>
  /\ ~renderer.needsStaticRedraw
  /\ "grid" \in drawn

\* the number of multiples of intervalMs in [0, durationMs]
positionsWithin(intervalMs, durationMs) ==
  MathFloor(Div(durationMs, intervalMs))[1] + 1

\* C35: with snapping enabled and a snap division d >= 1, every snap
\* position k * beatInterval / d in [0, durationMs] has a grid line of the
\* static pass on it (so the snap tier is left out only when the beat and
\* quarter tiers already cover its lines).
C35_SnapPositionsHaveLines ==
  (/\ gridIsCurrent
   /\ renderer.config.snapEnabled
   /\ Ge(renderer.config.snapDivision, N(1)))
  => \A g \in {gridLevels(state, renderer.config)},
        snapMs \in {Div(beatDurationMs(renderer.config),
                        renderer.config.snapDivision)} :
       \A k \in 1..positionsWithin(snapMs, state.durationMs) :
         \E i \in 1..Len(g) : g[i].timeMs = Mul(N(k - 1), snapMs)

\* C36: for bpm > 0 and durationMs > 0 the full-beat tier draws exactly the
\* ascending times k * beatIntervalMs, k >= 0, up to and including
\* durationMs, and a line of any tier has the measure style iff it lies on
\* a beat whose index is a multiple of 4.
C36_FullBeatTierCoversDuration ==
  (/\ gridIsCurrent
   /\ Gt(renderer.config.bpm, Zero)
   /\ Gt(state.durationMs, Zero))
  => \A g \in {gridLevels(state, renderer.config)},
        beatMs \in {beatDurationMs(renderer.config)} :
       /\ SelectSeq(g, LAMBDA line : line.tier = "beat")
            = [k \in 1..positionsWithin(beatMs, state.durationMs) |->
                 [tier |-> "beat", timeMs |-> Mul(N(k - 1), beatMs),
                  measure |-> (k - 1) % 4 = 0]]
       /\ \A i \in 1..Len(g) :
            g[i].measure
              <=> \E q \in {Div(g[i].timeMs, beatMs)} :
                    q[2] = 1 /\ q[1] % 4 = 0

=============================================================================
